---- MODULE Spec2Model ----
\* A model of the VNet SSH connection handler of lib/vnet (ssh_resolver.go)
\* and of the SSH-info resolution of its providers (local_ssh_provider.go,
\* remote_ssh_provider.go).
\*
\* One sshHandler is shared by NumConns goroutines.  Each goroutine runs
\* handleTCPConnector (specification Spec), a bare userSSHConfig call
\* (SpecCfg) or a dialTargetSSH call (SpecDial); SpecRun is one
\* handleTCPConnector run on its own, and SpecResolve one resolveTCPHandler
\* call.  The handler's shared state is the sync.Map sshClientConfig and the
\* singleflight.Group fg; every access to them is one step of the model, so
\* every interleaving Go allows is explored.
\*
\* The single-call specifications of the other packages each run on their own
\* variable: remoteSigner.Sign (SpecSign), stripSSHSuffix (SpecStrip), one
\* MessageReader (SpecReader), unmarshalEnumJSON (SpecEnum), the shutdown of
\* runRelayService (SpecRelay), handleAuthErrStdio on the MessageReader
\* (SpecAuthErr), and one MCP session of handleStdio or handleStdioToSSE
\* (SpecStdio).
EXTENDS Integers, Sequences, FiniteSets, TLC

\* ---------------------------------------------------------------- bounds
NumConns == 2
MaxCallbacks == 2

Conns == 1..NumConns
Users == {"alice", "bob"}

\* ---------------------------------------------------------------- values
\* The zero *ssh.ClientConfig (no config) and the nil error.
NoCfg == [User |-> "", serial |-> 0]
NoErr == [op |-> "nil", serial |-> 0]
ErrOf(op, n) == [op |-> op, serial |-> n]

VARIABLES
    sshClientConfig,  \* sshHandler.sshClientConfig: username -> config (NoCfg: no entry)
    fg,               \* sshHandler.fg: username -> goroutine running the flight (0: none)
    issued,           \* username -> number of provider UserSSHConfig calls started
    pc,               \* goroutine -> position in the code
    user,             \* goroutine -> username it works for (conn.User())
    ret,              \* goroutine -> caller of the running userSSHConfig
    cfg,              \* goroutine -> local sshClientConfig / c
    err,              \* goroutine -> local err
    callbacks,        \* goroutine -> PublicKeyCallback invocations so far
    accepted,         \* goroutine -> some PublicKeyCallback returned nil error
    tcpConns,         \* goroutine -> target TCP conns it dialed (1: targetTCPConn)
    sshClients,       \* goroutine -> outbound SSH clients it established
    targetClient,     \* goroutine -> index in sshClients (0: nil)
    localTCPConn,     \* goroutine -> the conn returned by connector
    serverConn,       \* goroutine -> the inbound SSH server conn
    handshakes,       \* goroutine -> outbound SSH client handshakes started on an open TCP conn
    stale,            \* username -> configs a retry deleted from the cache
    pending,          \* username -> issued[u] at a deletion no call started after yet (-1: none)
    first,            \* goroutine -> its call is the first started after a deletion: issued[u] then (-1: not)
    seenStale,        \* goroutine -> stale[u] when its userSSHConfig call started
    resolve,          \* one resolveTCPHandler call: its inputs, position and results
    sign,             \* one remoteSigner.Sign call: its inputs, position, requests and results
    reader,           \* one MessageReader: its transport, its goroutines and what they did
    strip,            \* one stripSSHSuffix call: its arguments, position and result
    bridge,           \* goroutine -> messages its bridge received from and forwarded for each side
    enum,             \* one unmarshalEnumJSON call: its data, *dst, position and error
    relay,            \* one runRelayService shutdown: its position, servers and what it did
    stdio,            \* one handleStdio call: its goroutines, the process, messages, events
    sse,              \* one handleStdioToSSE call: its position and events
    autherr,          \* one handleAuthErrStdio call: its position and what it returned
    tcpDials,         \* goroutine -> dialTargetTCP calls it made
    attempts,         \* goroutine -> NewClientConn calls of its running dialTargetSSH call
    failed,           \* goroutine -> config whose handshake failed in the running call
    offered,          \* goroutine -> key of the running PublicKeyCallback ("": none)
    decisions,        \* goroutine -> what its PublicKeyCallback invocations returned
    connErr,          \* goroutine -> the variable err of handleTCPConnector
    bannerPending,    \* goroutine -> banner goroutines started and not yet run
    banners           \* goroutine -> error texts sent as auth banners to the local client

cacheVars == <<sshClientConfig, fg, issued, stale, pending>>
connVars == <<callbacks, accepted, tcpConns, sshClients, targetClient,
              localTCPConn, serverConn, handshakes>>
dialVars == <<tcpDials, attempts, failed>>
authVars == <<offered, decisions, connErr, bannerPending, banners>>
traceVars == <<dialVars, authVars>>
handlerVars == <<cacheVars, pc, user, ret, cfg, err, first, seenStale, connVars, traceVars>>
mcpVars == <<stdio, sse, autherr>>
otherVars == <<resolve, sign, reader, strip, bridge, enum, relay, mcpVars>>
vars == <<handlerVars, otherVars>>

\* A panic ends the whole process: no goroutine takes another step.
\* "panic_assert": the type assertion of userSSHConfig on a nil interface;
\* "panic_nil": targetClient.Close() on a nil *ssh.Client;
\* "panic_banner": err.Error() on a nil error in the banner goroutine.
Panicked(q) == pc[q] \in {"panic_assert", "panic_nil", "panic_banner"}
NoPanic == \A q \in Conns : ~Panicked(q)

\* ------------------------------------------------------------ SSH-info values
\* Strings are sequences of one-character strings, so that suffix tests and
\* trimming are computed and not assumed.
Dot == <<".">>
Empty == <<>>

\* strings.HasSuffix and strings.TrimSuffix.
HasSuffix(s, suffix) ==
    /\ Len(suffix) <= Len(s)
    /\ SubSeq(s, Len(s) - Len(suffix) + 1, Len(s)) = suffix

TrimSuffix(s, suffix) ==
    IF HasSuffix(s, suffix) THEN SubSeq(s, 1, Len(s) - Len(suffix)) ELSE s

\* Errors of the resolution path: an error value and the number of wrappers
\* around it.  Only a value with no wrapper is identical to its sentinel.
NilErr == [id |-> "nil", wraps |-> 0]
errNoTCPHandler == [id |-> "errNoTCPHandler", wraps |-> 0]
errNoMatch == [id |-> "errNoMatch", wraps |-> 0]
ErrFrom(op) == [id |-> op, wraps |-> 0]

\* trace.Wrap: nil stays nil, any other error gets a new wrapper.
TraceWrap(e) == IF e = NilErr THEN NilErr ELSE [e EXCEPT !.wraps = @ + 1]

\* No *vnetv1.SshInfo, no ClusterClient, and the state of resolve when no
\* resolution runs.
NoInfo == [Profile |-> 0, LeafCluster |-> Empty, Hostname |-> Empty, Cluster |-> Empty]
NoClient == [ClusterName |-> Empty, RootClusterName |-> Empty]
NoResult == [info |-> NoInfo, err |-> NilErr]
SignIdle == [rpc |-> "idle"]
NoBridge == [recv |-> [s \in {"local", "target"} |-> <<>>],
             fwd |-> [s \in {"local", "target"} |-> <<>>]]
ReaderIdle ==
    [run |-> "idle", proc |-> "none", ctx |-> FALSE, finished |-> FALSE, closes |-> 0,
     onClose |-> 0, closedFirst |-> FALSE, reads |-> 0, msg |-> "", calls |-> <<>>,
     cfg |-> [OnClose |-> FALSE, OnRequest |-> FALSE, OnResponse |-> FALSE]]
Idle == [pc |-> "idle"]
ResolveIdle ==
    [rpc |-> "idle", provider |-> "none", fqdn |-> Empty, profiles |-> <<>>,
     fault |-> "none", provided |-> NoResult, handler |-> NoResult]

\* ------------------------------------------------- sshHandler.userSSHConfig
\* The deferred targetTCPConn.Close() and localTCPConn.Close() of
\* handleTCPConnector, which also run when a panic unwinds the goroutine.
DeferredTCP(p) ==
    IF Len(tcpConns[p]) = 0 THEN tcpConns[p]
    ELSE [tcpConns[p] EXCEPT ![1].closes = @ + 1, ![1].up = FALSE]

DeferredLocal(p) ==
    IF localTCPConn[p].opened
      THEN [localTCPConn[p] EXCEPT !.closes = @ + 1]
      ELSE localTCPConn[p]

\* A caller that goes on with the handshake whatever userSSHConfig returned.
AfterIgnoringError(r, e) ==
    CASE r = "caller" -> "returned"
      [] r = "dial" -> "dial_handshake"
      [] OTHER -> "retry_tcp"

\* Where userSSHConfig returns to, by caller and outcome.
AfterUserSSHConfig(r, e) ==
    CASE r = "caller" -> "returned"
      [] r = "dial" /\ e = NoErr -> "dial_handshake"
      [] r = "retry" /\ e = NoErr -> "retry_tcp"
      [] OTHER -> "cb_return"

ReturnUserSSHConfig(p, c, e) ==
    /\ pc' = [pc EXCEPT ![p] = AfterUserSSHConfig(ret[p], e)]
    /\ cfg' = [cfg EXCEPT ![p] = c]
    /\ err' = [err EXCEPT ![p] = e]

\* The fast path: h.sshClientConfig.Load(username).  This first step of the
\* call is where the call starts: it notes what was deleted before it.
USCLoad(p) ==
    /\ NoPanic /\ pc[p] = "usc_load"
    /\ seenStale' = [seenStale EXCEPT ![p] = stale[user[p]]]
    /\ first' = [first EXCEPT ![p] = pending[user[p]]]
    /\ pending' = [pending EXCEPT ![user[p]] = -1]
    /\ IF sshClientConfig[user[p]] # NoCfg
         THEN ReturnUserSSHConfig(p, sshClientConfig[user[p]], NoErr)
         ELSE /\ pc' = [pc EXCEPT ![p] = "fg_do"]
              /\ UNCHANGED <<cfg, err>>
    /\ UNCHANGED <<sshClientConfig, fg, issued, stale, user, otherVars, traceVars, ret, connVars>>

\* A singleflight group that never joins a running flight.
FgNeverJoins(u) == FALSE

\* A group with one key for all usernames: any running flight is joined.
FgAnyInFlight(u) == \E v \in Users : fg[v] # 0

\* singleflight: a call for the key is in flight.
FgInFlight(u) == fg[u] # 0

\* h.fg.Do(username, fn): join the flight for the key, or start one and run fn.
FgDo(p) ==
    /\ NoPanic /\ pc[p] = "fg_do"
    /\ IF FgInFlight(user[p])
         THEN /\ pc' = [pc EXCEPT ![p] = "fg_wait"]
              /\ UNCHANGED fg
         ELSE /\ pc' = [pc EXCEPT ![p] = "fg_fn"]
              /\ fg' = [fg EXCEPT ![user[p]] = p]
    /\ UNCHANGED <<sshClientConfig, issued, stale, pending, user, otherVars, traceVars, ret, cfg, err,
                   first, seenStale, connVars>>

\* fn without the double check.
FnNoDoubleCheck(u) == FALSE

\* The double check inside fn: an entry stored meanwhile ends fn.
FnCached(u) == sshClientConfig[u] # NoCfg

\* fn: the second Load, and on a miss the start of h.sshProvider.UserSSHConfig.
FgFn(p) ==
    /\ NoPanic /\ pc[p] = "fg_fn"
    /\ IF FnCached(user[p])
         THEN /\ pc' = [pc EXCEPT ![p] = "fg_done"]
              /\ err' = [err EXCEPT ![p] = NoErr]
              /\ UNCHANGED <<issued, cfg>>
         ELSE /\ pc' = [pc EXCEPT ![p] = "usc_provider"]
              /\ issued' = [issued EXCEPT ![user[p]] = @ + 1]
              /\ cfg' = [cfg EXCEPT ![p] =
                            [User |-> user[p], serial |-> issued[user[p]] + 1]]
              /\ UNCHANGED err
    /\ UNCHANGED <<sshClientConfig, fg, stale, pending, user, otherVars, traceVars, ret, first,
                   seenStale, connVars>>

\* h.sshProvider.UserSSHConfig returns: a new config, or an error.
ProviderReturn(p) ==
    /\ NoPanic /\ pc[p] = "usc_provider"
    /\ \E ok \in BOOLEAN :
         IF ok
           THEN /\ pc' = [pc EXCEPT ![p] = "usc_store"]
                /\ UNCHANGED <<cfg, err>>
           ELSE /\ pc' = [pc EXCEPT ![p] = "fg_done"]
                /\ err' = [err EXCEPT ![p] = ErrOf("UserSSHConfig", cfg[p].serial)]
                /\ cfg' = [cfg EXCEPT ![p] = NoCfg]
    /\ UNCHANGED <<cacheVars, user, otherVars, traceVars, ret, first, seenStale, connVars>>

\* A Store under one key for all usernames.
StoreKeyShared(p) == "alice"

\* The key of the Store: the username of the call.
StoreKey(p) == user[p]

\* h.sshClientConfig.Store(username, c); fn returns nil, nil.
USCStore(p) ==
    /\ NoPanic /\ pc[p] = "usc_store"
    /\ sshClientConfig' = [sshClientConfig EXCEPT ![StoreKey(p)] = cfg[p]]
    /\ pc' = [pc EXCEPT ![p] = "fg_done"]
    /\ cfg' = [cfg EXCEPT ![p] = NoCfg]
    /\ err' = [err EXCEPT ![p] = NoErr]
    /\ UNCHANGED <<fg, issued, stale, pending, user, otherVars, traceVars, ret, first, seenStale, connVars>>

\* The goroutines that joined the flight of p.
FgWaiters(p) == {q \in Conns : pc[q] = "fg_wait" /\ user[q] = user[p]}

\* fg.Do returns: the key is forgotten and every waiter gets fn's error.
FgDone(p) ==
    /\ NoPanic /\ pc[p] = "fg_done"
    /\ fg' = [fg EXCEPT ![user[p]] = 0]
    /\ pc' = [q \in Conns |->
                IF q = p \/ q \in FgWaiters(p) THEN "usc_after" ELSE pc[q]]
    /\ err' = [q \in Conns |-> IF q \in FgWaiters(p) THEN err[p] ELSE err[q]]
    /\ UNCHANGED <<sshClientConfig, issued, stale, pending, user, otherVars, traceVars, ret, cfg,
                   first, seenStale, connVars>>

\* After fg.Do: the error is returned, or the entry is loaded again and
\* type-asserted.  The branch for a missing entry is empty, so
\* c.(*ssh.ClientConfig) is evaluated on a nil interface and panics; the
\* panic unwinds handleTCPConnector, running its deferred closes.
USCAfter(p) ==
    /\ NoPanic /\ pc[p] = "usc_after"
    /\ IF err[p] # NoErr
         THEN /\ ReturnUserSSHConfig(p, NoCfg, err[p])
              /\ UNCHANGED <<tcpConns, localTCPConn>>
         ELSE IF sshClientConfig[user[p]] # NoCfg
           THEN /\ ReturnUserSSHConfig(p, sshClientConfig[user[p]], NoErr)
                /\ UNCHANGED <<tcpConns, localTCPConn>>
           ELSE /\ pc' = [pc EXCEPT ![p] = "panic_assert"]
                /\ tcpConns' = [tcpConns EXCEPT ![p] = DeferredTCP(p)]
                /\ localTCPConn' = [localTCPConn EXCEPT ![p] = DeferredLocal(p)]
                /\ UNCHANGED <<cfg, err>>
    /\ UNCHANGED <<cacheVars, user, otherVars, traceVars, ret, first, seenStale, callbacks, accepted,
                   sshClients, targetClient, serverConn, handshakes>>

userSSHConfig(p) ==
    \/ USCLoad(p)
    \/ FgDo(p)
    \/ FgFn(p)
    \/ ProviderReturn(p)
    \/ USCStore(p)
    \/ FgDone(p)
    \/ USCAfter(p)

\* ------------------------------------------------------------------ SpecCfg
\* NumConns concurrent userSSHConfig calls on a handler with an empty cache.
NoConn == [opened |-> FALSE, closes |-> 0]

InitShared ==
    /\ sshClientConfig = [u \in Users |-> NoCfg]
    /\ fg = [u \in Users |-> 0]
    /\ issued = [u \in Users |-> 0]
    /\ stale = [u \in Users |-> {}]
    /\ cfg = [p \in Conns |-> NoCfg]
    /\ err = [p \in Conns |-> NoErr]
    /\ callbacks = [p \in Conns |-> 0]
    /\ accepted = [p \in Conns |-> FALSE]
    /\ sshClients = [p \in Conns |-> <<>>]
    /\ targetClient = [p \in Conns |-> 0]
    /\ localTCPConn = [p \in Conns |-> NoConn]
    /\ serverConn = [p \in Conns |-> NoConn]
    /\ handshakes = [p \in Conns |-> 0]
    /\ pending = [u \in Users |-> -1]
    /\ first = [p \in Conns |-> -1]
    /\ seenStale = [p \in Conns |-> {}]
    /\ tcpDials = [p \in Conns |-> 0]
    /\ attempts = [p \in Conns |-> 0]
    /\ failed = [p \in Conns |-> NoCfg]
    /\ offered = [p \in Conns |-> ""]
    /\ decisions = [p \in Conns |-> <<>>]
    /\ connErr = [p \in Conns |-> NoErr]
    /\ bannerPending = [p \in Conns |-> 0]
    /\ banners = [p \in Conns |-> <<>>]

InitCfg ==
    /\ InitShared
    /\ resolve = ResolveIdle /\ sign = SignIdle /\ reader = ReaderIdle
    /\ bridge = [p \in Conns |-> NoBridge]
    /\ enum = Idle /\ relay = Idle /\ stdio = Idle /\ sse = Idle /\ autherr = Idle
    /\ strip = Idle
    /\ tcpConns = [p \in Conns |-> <<>>]
    /\ user \in [Conns -> Users]
    /\ pc = [p \in Conns |-> "usc_load"]
    /\ ret = [p \in Conns |-> "caller"]

SpecCfg == InitCfg /\ [][\E p \in Conns : userSSHConfig(p)]_vars

\* ------------------------------------------------ sshHandler.handleTCPConnector
\* The notes on the last userSSHConfig call are dropped once its caller has
\* used its result.
ForgetCall(p) ==
    /\ first' = [first EXCEPT ![p] = -1]
    /\ seenStale' = [seenStale EXCEPT ![p] = {}]

NewTCPConn == [hs |-> 0, closes |-> 0, up |-> TRUE]

\* ssh.Client.Close(): Close is invoked on the client and closes its transport.
CloseClient(p, i) ==
    /\ sshClients' = [sshClients EXCEPT ![p][i].closes = @ + 1]

\* The target TCP conns of p after client i (0: none) is closed and the
\* deferred targetTCPConn.Close() has run.
TCPAfterExit(p, i) ==
    [k \in 1..Len(tcpConns[p]) |->
        [tcpConns[p][k] EXCEPT
            !.closes = IF k = 1 THEN @ + 1 ELSE @,
            !.up = IF k = 1 \/ (i # 0 /\ sshClients[p][i].tcp = k) THEN FALSE ELSE @]]

\* A handler that goes on to connector() after a failed dial.
IgnoreDialError(p) == "connector"

\* handleTCPConnector after a failed dialTargetTCP: it returns the error.
OnDialError(p) == "done"

\* targetTCPConn, err := h.dialTargetTCP(ctx), and the return on its error.
DialTargetTCP(p) ==
    /\ NoPanic /\ pc[p] = "start"
    /\ \E ok \in BOOLEAN :
         IF ok
           THEN /\ tcpConns' = [tcpConns EXCEPT ![p] = <<NewTCPConn>>]
                /\ pc' = [pc EXCEPT ![p] = "connector"]
                /\ UNCHANGED err
           ELSE /\ pc' = [pc EXCEPT ![p] = OnDialError(p)]
                /\ err' = [err EXCEPT ![p] = ErrOf("dialTargetTCP", 0)]
                /\ UNCHANGED tcpConns
    /\ tcpDials' = [tcpDials EXCEPT ![p] = @ + 1]
    /\ connErr' = [connErr EXCEPT ![p] = err'[p]]
    /\ UNCHANGED <<cacheVars, user, otherVars, ret, cfg, first, seenStale, callbacks, accepted,
                   sshClients, targetClient, localTCPConn, serverConn, handshakes,
                   attempts, failed, offered, decisions, bannerPending, banners>>

\* localTCPConn, err := connector(), and the return on its error.
Connector(p) ==
    /\ NoPanic /\ pc[p] = "connector"
    /\ \E ok \in BOOLEAN :
         IF ok
           THEN /\ localTCPConn' = [localTCPConn EXCEPT ![p].opened = TRUE]
                /\ pc' = [pc EXCEPT ![p] = "server_handshake"]
                /\ UNCHANGED <<err, tcpConns>>
           ELSE /\ pc' = [pc EXCEPT ![p] = "done"]
                /\ err' = [err EXCEPT ![p] = ErrOf("connector", 0)]
                /\ tcpConns' = [tcpConns EXCEPT ![p] = TCPAfterExit(p, 0)]
                /\ UNCHANGED localTCPConn
    /\ connErr' = [connErr EXCEPT ![p] = err'[p]]
    /\ UNCHANGED <<cacheVars, user, otherVars, dialVars, ret, cfg, first, seenStale, callbacks,
                   accepted, sshClients, targetClient, serverConn, handshakes,
                   offered, decisions, bannerPending, banners>>

\* The public keys a local SSH client may offer.

\* The PublicKeyCallback invocations of all connections so far.
RECURSIVE SumTo(_, _)
SumTo(f, n) == IF n = 0 THEN 0 ELSE f[n] + SumTo(f, n - 1)

\* ssh.NewServerConn invokes PublicKeyCallback for a key the client offers:
\* the callback calls h.dialTargetSSH(ctx, targetTCPConn, conn.User()), which
\* starts with h.userSSHConfig(ctx, username).
PublicKeyCallback(p) ==
    /\ NoPanic /\ pc[p] = "server_handshake"
    /\ SumTo(callbacks, NumConns) < MaxCallbacks
    /\ callbacks' = [callbacks EXCEPT ![p] = @ + 1]
    /\ \E key \in {"k1", "k2"} : offered' = [offered EXCEPT ![p] = key]
    /\ attempts' = [attempts EXCEPT ![p] = 0]
    /\ failed' = [failed EXCEPT ![p] = NoCfg]
    /\ pc' = [pc EXCEPT ![p] = "usc_load"]
    /\ ret' = [ret EXCEPT ![p] = "dial"]
    /\ UNCHANGED <<cacheVars, user, otherVars, cfg, err, first, seenStale, accepted, tcpConns,
                   sshClients, targetClient, localTCPConn, serverConn, handshakes,
                   tcpDials, decisions, connErr, bannerPending, banners>>

\* The outcomes of an SSH client handshake on TCP conn i of p: the target
\* decides on an open conn that carried no handshake yet; on a closed conn,
\* or in the middle of the SSH stream of an earlier handshake, it fails.
HandshakeOutcomes(p, i) ==
    IF tcpConns[p][i].up /\ tcpConns[p][i].hs = 0 THEN BOOLEAN ELSE {FALSE}

\* tracessh.NewClientConn on TCP conn i of p: a failed handshake closes the
\* conn, a successful one yields a client (ssh.NewClient) on it.
ClientHandshake(p, i, ok) ==
    /\ handshakes' = [handshakes EXCEPT ![p] = IF tcpConns[p][i].up THEN @ + 1 ELSE @]
    /\ tcpConns' = [tcpConns EXCEPT ![p][i].hs = @ + 1,
                                    ![p][i].up = IF ok THEN @ ELSE FALSE]
    /\ sshClients' = [sshClients EXCEPT ![p] =
                        IF ok THEN Append(@, [tcp |-> i, closes |-> 0]) ELSE @]

\* The TCP conn dialTargetSSH hands to its first handshake: the tcpConn
\* argument, which the callback sets to targetTCPConn.
DialConn(p) == 1

\* dialTargetSSH after userSSHConfig: the handshake on tcpConn; on success the
\* client is returned, on failure retryDialTargetSSH is entered.
DialHandshake(p) ==
    /\ NoPanic /\ pc[p] = "dial_handshake"
    /\ \E ok \in HandshakeOutcomes(p, DialConn(p)) :
         /\ ClientHandshake(p, DialConn(p), ok)
         /\ pc' = [pc EXCEPT ![p] = IF ok THEN "cb_return" ELSE "retry_delete"]
         /\ failed' = [failed EXCEPT ![p] = IF ok THEN NoCfg ELSE cfg[p]]
    /\ cfg' = [cfg EXCEPT ![p] = NoCfg]
    /\ attempts' = [attempts EXCEPT ![p] = @ + 1]
    /\ ForgetCall(p)
    /\ UNCHANGED <<cacheVars, user, otherVars, authVars, ret, err, callbacks, accepted,
                   targetClient, localTCPConn, serverConn, tcpDials>>

\* A retry that clears the whole cache.
DeletesAll(p) == Users

\* The keys h.sshClientConfig.Delete(username) removes.
Deleted(p) == {user[p]}

\* retryDialTargetSSH: h.sshClientConfig.Delete(username), then the call of
\* h.userSSHConfig(ctx, username).
RetryDelete(p) ==
    /\ NoPanic /\ pc[p] = "retry_delete"
    /\ sshClientConfig' = [u \in Users |->
                              IF u \in Deleted(p) THEN NoCfg ELSE sshClientConfig[u]]
    /\ IF sshClientConfig[user[p]] # NoCfg
         THEN /\ stale' = [stale EXCEPT ![user[p]] = @ \cup {sshClientConfig[user[p]]}]
              /\ pending' = [pending EXCEPT ![user[p]] = issued[user[p]]]
         ELSE UNCHANGED <<stale, pending>>
    /\ pc' = [pc EXCEPT ![p] = "usc_load"]
    /\ ret' = [ret EXCEPT ![p] = "retry"]
    /\ UNCHANGED <<fg, issued, user, otherVars, traceVars, cfg, err, first, seenStale, connVars>>

\* retryDialTargetSSH: tcpConn, err := h.dialTargetTCP(ctx).
RetryTCP(p) ==
    /\ NoPanic /\ pc[p] = "retry_tcp"
    /\ \E ok \in BOOLEAN :
         IF ok
           THEN /\ tcpConns' = [tcpConns EXCEPT ![p] = Append(@, NewTCPConn)]
                /\ pc' = [pc EXCEPT ![p] = "retry_handshake"]
                /\ UNCHANGED <<err, cfg>>
           ELSE /\ pc' = [pc EXCEPT ![p] = "cb_return"]
                /\ err' = [err EXCEPT ![p] = ErrOf("dialTargetTCP", 0)]
                /\ cfg' = [cfg EXCEPT ![p] = NoCfg]
                /\ UNCHANGED tcpConns
    /\ tcpDials' = [tcpDials EXCEPT ![p] = @ + 1]
    /\ failed' = [failed EXCEPT ![p] = NoCfg]
    /\ ForgetCall(p)
    /\ UNCHANGED <<cacheVars, user, otherVars, authVars, ret, callbacks, accepted,
                   sshClients, targetClient, localTCPConn, serverConn, handshakes, attempts>>

\* A retry that hands the conn of the failed handshake to NewClientConn.
RetryOnFirstConn(p) == 1

\* The TCP conn retryDialTargetSSH hands to its handshake: the one it dialed.
RetryConn(p) == Len(tcpConns[p])

\* retryDialTargetSSH: the handshake on the new TCP conn; its outcome is final.
RetryHandshake(p) ==
    /\ NoPanic /\ pc[p] = "retry_handshake"
    /\ \E ok \in HandshakeOutcomes(p, RetryConn(p)) :
         /\ ClientHandshake(p, RetryConn(p), ok)
         /\ err' = [err EXCEPT ![p] =
                      IF ok THEN NoErr ELSE ErrOf("NewClientConn", 0)]
    /\ pc' = [pc EXCEPT ![p] = "cb_return"]
    /\ cfg' = [cfg EXCEPT ![p] = NoCfg]
    /\ attempts' = [attempts EXCEPT ![p] = @ + 1]
    /\ UNCHANGED <<cacheVars, user, otherVars, authVars, ret, first, seenStale, callbacks,
                   accepted, targetClient, localTCPConn, serverConn, tcpDials, failed>>

\* The client PublicKeyCallback assigns to targetClient: the one dialTargetSSH
\* returned (the last established), or nil with an error.
DialedClient(p) == IF err[p] = NoErr THEN Len(sshClients[p]) ELSE 0

\* A callback that accepts one particular key only.
DecisionByKey(key, e) == e = NoErr /\ key = "k1"

\* The callback's decision on the offered key, given the error of
\* dialTargetSSH: the key itself is not looked at.
Decision(key, e) == e = NoErr

\* What a PublicKeyCallback invocation returned: the key it was offered, its
\* decision, the error dialTargetSSH had returned to it, and the banners
\* sent up to its return.
Returned(p, accept, e) ==
    [key |-> offered[p], accept |-> accept, err |-> e, sent |-> Len(banners[p])]

\* targetClient, err = h.dialTargetSSH(...): both variables of
\* handleTCPConnector are assigned.  With a nil error the callback returns
\* nil and the key is accepted; with an error it starts the goroutine that
\* sends the banner and sleeps.
CallbackReturn(p) ==
    /\ NoPanic /\ pc[p] = "cb_return"
    /\ targetClient' = [targetClient EXCEPT ![p] = DialedClient(p)]
    /\ connErr' = [connErr EXCEPT ![p] = err[p]]
    /\ IF Decision(offered[p], err[p])
         THEN /\ accepted' = [accepted EXCEPT ![p] = TRUE]
              /\ decisions' = [decisions EXCEPT ![p] = Append(@, Returned(p, TRUE, err[p]))]
              /\ offered' = [offered EXCEPT ![p] = ""]
              /\ pc' = [pc EXCEPT ![p] = "server_handshake"]
              /\ UNCHANGED bannerPending
         ELSE /\ bannerPending' = [bannerPending EXCEPT ![p] = @ + 1]
              /\ pc' = [pc EXCEPT ![p] = "cb_sleep"]
              /\ UNCHANGED <<accepted, decisions, offered>>
    /\ ForgetCall(p)
    /\ UNCHANGED <<cacheVars, user, otherVars, dialVars, ret, cfg, err, callbacks, banners,
                   tcpConns, sshClients, localTCPConn, serverConn, handshakes>>

\* time.Sleep(500 * time.Millisecond) is over and the callback returns
\* nil, err: the key is rejected.  The sleep orders nothing: the banner
\* goroutine may or may not have run.
CallbackReject(p) ==
    /\ NoPanic /\ pc[p] = "cb_sleep"
    /\ decisions' = [decisions EXCEPT ![p] = Append(@, Returned(p, FALSE, connErr[p]))]
    /\ offered' = [offered EXCEPT ![p] = ""]
    /\ pc' = [pc EXCEPT ![p] = "server_handshake"]
    /\ UNCHANGED <<cacheVars, user, otherVars, dialVars, ret, cfg, err, first, seenStale,
                   connVars, connErr, bannerPending, banners>>

\* While ssh.NewServerConn is authenticating, a banner can reach the client.
PreAuth(p) == pc[p] \notin {"start", "connector", "proxy", "done"}

\* go func() { preAuthConn.SendAuthBanner(err.Error()) }(): the goroutine
\* runs at some time after it was started and reads the variable err of
\* handleTCPConnector as it is then, without synchronisation.  err.Error()
\* on a nil error panics; once authentication is over nothing is sent.
SendAuthBanner(p) ==
    /\ NoPanic /\ bannerPending[p] > 0
    /\ bannerPending' = [bannerPending EXCEPT ![p] = @ - 1]
    /\ IF connErr[p] = NoErr
         THEN /\ pc' = [pc EXCEPT ![p] = "panic_banner"]
              /\ UNCHANGED banners
         ELSE /\ banners' = [banners EXCEPT ![p] =
                               IF PreAuth(p) THEN Append(@, connErr[p]) ELSE @]
              /\ UNCHANGED pc
    /\ UNCHANGED <<cacheVars, user, otherVars, dialVars, ret, cfg, err, first, seenStale,
                   connVars, offered, decisions, connErr>>

\* A server config with NoClientAuth set: no key has to be accepted.
NoClientAuth(p) == TRUE

\* serverConfig sets PublicKeyCallback and nothing else for authentication:
\* the handshake succeeds only with a key that a callback accepted.
AuthDone(p) == accepted[p]

\* ssh.NewServerConn returns a server conn: the client signed with a key that
\* a callback accepted.  proxySSHConnection starts.
ServerConnAccept(p) ==
    /\ NoPanic /\ pc[p] = "server_handshake"
    /\ AuthDone(p)
    /\ serverConn' = [serverConn EXCEPT ![p].opened = TRUE]
    /\ pc' = [pc EXCEPT ![p] = "proxy"]
    /\ err' = [err EXCEPT ![p] = NoErr]
    /\ connErr' = [connErr EXCEPT ![p] = NoErr]
    /\ UNCHANGED <<cacheVars, user, otherVars, dialVars, ret, cfg, first, seenStale, callbacks,
                   accepted, tcpConns, sshClients, targetClient, localTCPConn, handshakes,
                   offered, decisions, bannerPending, banners>>

\* Whether the error path of NewServerConn closes targetClient.
ClosesOnFail(p) == targetClient[p] # 0

\* ssh.NewServerConn returns an error: targetClient is closed when not nil,
\* the error is returned and the deferred closes run.
ServerConnFail(p) ==
    /\ NoPanic /\ pc[p] = "server_handshake"
    /\ IF ClosesOnFail(p)
         THEN /\ CloseClient(p, targetClient[p])
              /\ tcpConns' = [tcpConns EXCEPT ![p] = TCPAfterExit(p, targetClient[p])]
         ELSE /\ UNCHANGED sshClients
              /\ tcpConns' = [tcpConns EXCEPT ![p] = TCPAfterExit(p, 0)]
    /\ localTCPConn' = [localTCPConn EXCEPT ![p] = DeferredLocal(p)]
    /\ err' = [err EXCEPT ![p] = ErrOf("NewServerConn", 0)]
    /\ connErr' = [connErr EXCEPT ![p] = ErrOf("NewServerConn", 0)]
    /\ pc' = [pc EXCEPT ![p] = "done"]
    /\ UNCHANGED <<cacheVars, user, otherVars, dialVars, ret, cfg, first, seenStale, callbacks,
                   accepted, targetClient, serverConn, handshakes,
                   offered, decisions, bannerPending, banners>>

\* proxySSHConnection returns (either side closed or failed); the deferred
\* serverConn.Close() and targetClient.Close() run, then the deferred closes
\* of the two TCP conns.  targetClient.Close() on a nil client panics, and the
\* remaining deferred closes run while the panic unwinds.
ProxyReturn(p) ==
    /\ NoPanic /\ pc[p] = "proxy"
    /\ serverConn' = [serverConn EXCEPT ![p].closes = @ + 1]
    /\ IF targetClient[p] # 0
         THEN /\ CloseClient(p, targetClient[p])
              /\ pc' = [pc EXCEPT ![p] = "done"]
         ELSE /\ UNCHANGED sshClients
              /\ pc' = [pc EXCEPT ![p] = "panic_nil"]
    /\ tcpConns' = [tcpConns EXCEPT ![p] = TCPAfterExit(p, targetClient[p])]
    /\ localTCPConn' = [localTCPConn EXCEPT ![p] = DeferredLocal(p)]
    /\ UNCHANGED <<cacheVars, user, otherVars, traceVars, ret, cfg, err, first, seenStale, callbacks,
                   accepted, targetClient, handshakes>>

\* dialTargetSSH and retryDialTargetSSH after their userSSHConfig calls.
dialTargetSSH(p) ==
    \/ DialHandshake(p)
    \/ RetryDelete(p)
    \/ RetryTCP(p)
    \/ RetryHandshake(p)

handleTCPConnector(p) ==
    \/ DialTargetTCP(p)
    \/ Connector(p)
    \/ PublicKeyCallback(p)
    \/ dialTargetSSH(p)
    \/ CallbackReturn(p)
    \/ CallbackReject(p)
    \/ SendAuthBanner(p)
    \/ ServerConnAccept(p)
    \/ ServerConnFail(p)
    \/ ProxyReturn(p)

\* --------------------------------------------------------------------- Spec
\* NumConns connections handled concurrently by one sshHandler, each by its
\* own handleTCPConnector goroutine.
Init ==
    /\ InitShared
    /\ resolve = ResolveIdle /\ sign = SignIdle /\ reader = ReaderIdle
    /\ bridge = [p \in Conns |-> NoBridge]
    /\ enum = Idle /\ relay = Idle /\ stdio = Idle /\ sse = Idle /\ autherr = Idle
    /\ strip = Idle
    /\ tcpConns = [p \in Conns |-> <<>>]
    /\ user \in [Conns -> Users]
    /\ pc = [p \in Conns |-> "start"]
    /\ ret = [p \in Conns |-> "dial"]

Spec == Init /\ [][\E p \in Conns : handleTCPConnector(p) \/ userSSHConfig(p)]_vars

\* ----------------------------------------------------------------- SpecDial
\* NumConns concurrent dialTargetSSH calls on one sshHandler, each on its own
\* open TCP conn: any interleaving of userSSHConfig and retryDialTargetSSH.
\* The usernames are interchangeable, so that of the first call is fixed.
InitDial ==
    /\ InitShared
    /\ resolve = ResolveIdle /\ sign = SignIdle /\ reader = ReaderIdle
    /\ bridge = [p \in Conns |-> NoBridge]
    /\ enum = Idle /\ relay = Idle /\ stdio = Idle /\ sse = Idle /\ autherr = Idle
    /\ strip = Idle
    /\ tcpConns = [p \in Conns |-> <<NewTCPConn>>]
    /\ user \in {f \in [Conns -> Users] : f[1] = "alice"}
    /\ pc = [p \in Conns |-> "usc_load"]
    /\ ret = [p \in Conns |-> "dial"]

SpecDial == InitDial /\ [][\E p \in Conns : userSSHConfig(p) \/ dialTargetSSH(p)]_vars

\* ------------------------------------------------------------------ SpecRun
\* One handleTCPConnector run, of goroutine 1, with its banner goroutines, on
\* an sshHandler no other connection uses.
InitRun ==
    /\ InitShared
    /\ resolve = ResolveIdle /\ sign = SignIdle /\ reader = ReaderIdle
    /\ bridge = [p \in Conns |-> NoBridge]
    /\ enum = Idle /\ relay = Idle /\ stdio = Idle /\ sse = Idle /\ autherr = Idle
    /\ strip = Idle
    /\ tcpConns = [p \in Conns |-> <<>>]
    /\ user \in {f \in [Conns -> Users] : \A p \in Conns \ {1} : f[p] = "alice"}
    /\ pc = [p \in Conns |-> IF p = 1 THEN "start" ELSE "idle"]
    /\ ret = [p \in Conns |-> "dial"]

NextRun == handleTCPConnector(1) \/ userSSHConfig(1)

SpecRun == InitRun /\ [][NextRun]_vars

\* ------------------------------------------------------- proxySSHConnection
\* The bridge between the inbound server conn ("local") and the outbound
\* client ("target") of one run.  A message is a channel-open or out-of-band
\* request of the connection (ch 0) or a request inside channel ch; n numbers
\* the messages a side sent.
MaxBridged == 2
Sides == {"local", "target"}
Chans == 0..1

\* The messages received from a side and not yet forwarded to the other.
Pending(p, side) ==
    LET Range(s) == {s[i] : i \in 1..Len(s)}
    IN  Range(bridge[p].recv[side]) \ Range(bridge[p].fwd[side])

\* The oldest pending message of channel c from a side.
Oldest(p, side, c) ==
    CHOOSE m \in Pending(p, side) :
        m.ch = c /\ \A o \in Pending(p, side) : o.ch = c => m.n <= o.n

\* Forwarding needs both SSH connections: the server conn and targetClient.
CanForward(p) ==
    /\ serverConn[p].opened /\ serverConn[p].closes = 0
    /\ targetClient[p] # 0
    /\ sshClients[p][targetClient[p]].closes = 0

\* A side sends a message, which the bridge receives.
BridgeRecv(p, side) ==
    /\ NoPanic /\ pc[p] = "proxy"
    /\ Len(bridge[p].recv["local"]) + Len(bridge[p].recv["target"]) < MaxBridged
    /\ \E c \in Chans :
         bridge' = [bridge EXCEPT ![p].recv[side] =
                       Append(@, [ch |-> c, n |-> Len(@) + 1])]
    /\ UNCHANGED <<handlerVars, resolve, sign, reader, strip, enum, relay, mcpVars>>

\* The bridge forwards to the other side the oldest pending message of some
\* channel; the channels are served independently of each other.
BridgeForward(p, side) ==
    /\ NoPanic /\ pc[p] = "proxy"
    /\ CanForward(p)
    /\ \E c \in {m.ch : m \in Pending(p, side)} :
         bridge' = [bridge EXCEPT ![p].fwd[side] = Append(@, Oldest(p, side, c))]
    /\ UNCHANGED <<handlerVars, resolve, sign, reader, strip, enum, relay, mcpVars>>

proxySSHConnection(p) == \E side \in Sides : BridgeRecv(p, side) \/ BridgeForward(p, side)

\* ---------------------------------------------------------------- SpecBridge
\* One handleTCPConnector run with the traffic of its bridge.
SpecBridge == InitRun /\ [][NextRun \/ proxySSHConnection(1)]_vars

\* ------------------------------------------------------------ ResolveSSHInfo
\* fullyQualify and isDescendantSubdomain of package vnet.
fullyQualify(domain) == IF HasSuffix(domain, Dot) THEN domain ELSE domain \o Dot

isDescendantSubdomain(fqdn, zone) == HasSuffix(fqdn, Dot \o fullyQualify(zone))

\* stripSSHSuffix without the last TrimSuffix.
StripKeepsDot(s, leafClusterName, rootClusterName) ==
    TrimSuffix(TrimSuffix(s, fullyQualify(rootClusterName)),
               fullyQualify(leafClusterName))

\* stripSSHSuffix.
stripSSHSuffix(s, leafClusterName, rootClusterName) ==
    TrimSuffix(
        TrimSuffix(TrimSuffix(s, fullyQualify(rootClusterName)),
                   fullyQualify(leafClusterName)),
        Dot)

\* ClientApplication.GetCachedClient(ctx, profileName, leafClusterName) for a
\* profile: the client of the root cluster (empty leaf name) or of the leaf.
GetCachedClient(prof, leafClusterName) ==
    IF leafClusterName = Empty
      THEN IF prof.mode = "rootErr"
             THEN [client |-> NoClient, err |-> ErrFrom("GetCachedClient")]
             ELSE [client |-> [ClusterName |-> prof.root, RootClusterName |-> prof.root],
                   err |-> NilErr]
      ELSE IF prof.mode = "leafErr"
             THEN [client |-> NoClient, err |-> ErrFrom("GetCachedClient")]
             ELSE [client |-> [ClusterName |-> leafClusterName,
                               RootClusterName |-> prof.root],
                   err |-> NilErr]

\* The first leaf cluster name of allClusters, from index k on, whose zone the
\* fqdn descends from (0: none).
RECURSIVE FirstLeafMatch(_, _, _, _)
FirstLeafMatch(allClusters, rootClusterName, fqdn, k) ==
    IF k > Len(allClusters) THEN 0
    ELSE IF isDescendantSubdomain(fqdn, allClusters[k] \o Dot \o rootClusterName)
      THEN k
      ELSE FirstLeafMatch(allClusters, rootClusterName, fqdn, k + 1)

\* Whether clusterClientForFQDN takes the fqdn for the root cluster at once.
RootMatches(fqdn, rootClusterName) == isDescendantSubdomain(fqdn, rootClusterName)

\* localSSHProvider.clusterClientForFQDN.
clusterClientForFQDN(prof, fqdn) ==
    LET rootClient == GetCachedClient(prof, Empty)
        allClusters == <<Empty>> \o prof.leaves
        k == FirstLeafMatch(allClusters, prof.root, fqdn, 1)
        leafClient == GetCachedClient(prof, allClusters[k])
    IN  IF rootClient.err # NilErr THEN [client |-> NoClient, err |-> errNoMatch]
        ELSE IF RootMatches(fqdn, prof.root) THEN rootClient
        ELSE IF prof.mode = "leavesErr" THEN [client |-> NoClient, err |-> errNoMatch]
        ELSE IF k = 0 THEN [client |-> NoClient, err |-> errNoMatch]
        ELSE [client |-> leafClient.client, err |-> TraceWrap(leafClient.err)]

\* localSSHProvider.resolveSSHInfoForCluster.
resolveSSHInfoForCluster(clusterClient, profileName, leafClusterName, fqdn, fault) ==
    IF fault = "GetClusterConfig"
      THEN [info |-> NoInfo, err |-> TraceWrap(ErrFrom("GetClusterConfig"))]
    ELSE IF fault = "GetDialOptions"
      THEN [info |-> NoInfo, err |-> TraceWrap(ErrFrom("GetDialOptions"))]
    ELSE [info |-> [Profile |-> profileName,
                    LeafCluster |-> leafClusterName,
                    Hostname |-> stripSSHSuffix(fqdn, leafClusterName,
                                                clusterClient.RootClusterName),
                    Cluster |-> clusterClient.ClusterName],
          err |-> NilErr]

\* The error ResolveSSHInfo returns when no profile matched.
NoProfileMatched == errNoTCPHandler

\* A loop that returns the error of the first profile it cannot use.
ResolveFromNoSkip(profiles, fqdn, fault, i) ==
    IF i > Len(profiles) THEN [info |-> NoInfo, err |-> NoProfileMatched]
    ELSE LET found == clusterClientForFQDN(profiles[i], fqdn)
         IN  IF found.err # NilErr
               THEN [info |-> NoInfo, err |-> found.err]
               ELSE resolveSSHInfoForCluster(found.client, i, Empty, fqdn, fault)

\* The loop of localSSHProvider.ResolveSSHInfo over the profiles from i on.
RECURSIVE ResolveFrom(_, _, _, _)
ResolveFrom(profiles, fqdn, fault, i) ==
    IF i > Len(profiles) THEN [info |-> NoInfo, err |-> NoProfileMatched]
    ELSE LET found == clusterClientForFQDN(profiles[i], fqdn)
             clusterName == found.client.ClusterName
             leafClusterName ==
                 IF clusterName # Empty /\ clusterName # found.client.RootClusterName
                   THEN clusterName ELSE Empty
         IN  IF found.err # NilErr
               THEN ResolveFrom(profiles, fqdn, fault, i + 1)
               ELSE resolveSSHInfoForCluster(found.client, i, leafClusterName,
                                             fqdn, fault)

\* localSSHProvider.ResolveSSHInfo.
LocalResolveSSHInfo(profiles, fqdn, fault) ==
    IF fault = "ListProfiles"
      THEN [info |-> NoInfo, err |-> TraceWrap(ErrFrom("ListProfiles"))]
      ELSE ResolveFrom(profiles, fqdn, fault, 1)

\* clientApplicationServiceClient.ResolveSSHInfo: the answer of the client
\* application over gRPC, with "no handler" turned back into the sentinel.
CltResolveSSHInfo(profiles, fqdn, fault) ==
    LET r == LocalResolveSSHInfo(profiles, fqdn, fault)
    IN  IF r.err = NilErr \/ r.err = errNoTCPHandler THEN r
        ELSE [info |-> NoInfo, err |-> ErrFrom("rpc")]

\* remoteSSHProvider.ResolveSSHInfo: what the gRPC client returns, as it is.
RemoteResolveSSHInfo(profiles, fqdn, fault) == CltResolveSSHInfo(profiles, fqdn, fault)

\* The call r.sshProvider.ResolveSSHInfo(ctx, fqdn) of resolveTCPHandler.
ProviderResolves(kind) ==
    /\ resolve.rpc = "call" /\ resolve.provider = kind
    /\ resolve' = [resolve EXCEPT
          !.rpc = "provided",
          !.provided =
              IF kind = "local"
                THEN LocalResolveSSHInfo(resolve.profiles, resolve.fqdn, resolve.fault)
                ELSE RemoteResolveSSHInfo(resolve.profiles, resolve.fqdn, resolve.fault)]
    /\ UNCHANGED <<handlerVars, sign, reader, strip, bridge, enum, relay, mcpVars>>

LocalProvider == ProviderResolves("local")
RemoteProvider == ProviderResolves("remote")

\* resolveTCPHandler wrapping the provider's error.
HandlerErrorWrapped(e) == TraceWrap(e)

\* The error resolveTCPHandler returns for the provider's error.
HandlerError(e) == e

\* sshResolver.resolveTCPHandler after the provider returned: the error is
\* returned, or a handler spec is built for the SSH info.
resolveTCPHandler ==
    /\ resolve.rpc = "provided"
    /\ resolve' = [resolve EXCEPT
          !.rpc = "done",
          !.handler = IF resolve.provided.err # NilErr
                        THEN [info |-> NoInfo, err |-> HandlerError(resolve.provided.err)]
                        ELSE resolve.provided]
    /\ UNCHANGED <<handlerVars, sign, reader, strip, bridge, enum, relay, mcpVars>>

\* ---------------------------------------------------------------- SpecResolve
\* One resolveTCPHandler call for every fqdn and every set-up of profiles.
MaxProfiles == 2

Labels == {<<"h">>, <<"l">>, <<"r">>}
RootNames == {<<"r">>, <<"x">>}
Fqdns ==
    {a \o Dot : a \in Labels}
      \cup {a \o Dot \o b \o Dot : a \in Labels, b \in Labels}
      \cup {a \o Dot \o b \o Dot \o c \o Dot : a \in Labels, b \in Labels, c \in Labels}

\* A saved profile: its root cluster, the leaf clusters of the root, and what
\* fails for it (the root client, the leaf list, the leaf client, nothing).
ProfileKinds ==
    [root : RootNames, leaves : {<<>>}, mode : {"ok", "rootErr"}]
      \cup [root : RootNames, leaves : {<< <<"l">> >>}, mode : {"ok", "leavesErr", "leafErr"}]


InitResolve ==
    /\ InitShared
    /\ tcpConns = [p \in Conns |-> <<>>]
    /\ user = [p \in Conns |-> "alice"]
    /\ pc = [p \in Conns |-> "idle"]
    /\ ret = [p \in Conns |-> "dial"]
    /\ sign = SignIdle /\ reader = ReaderIdle
    /\ bridge = [p \in Conns |-> NoBridge]
    /\ enum = Idle /\ relay = Idle /\ stdio = Idle /\ sse = Idle /\ autherr = Idle
    /\ strip = Idle
    /\ \E kind \in {"local", "remote"}, f \in Fqdns,
          ps \in UNION {[1..n -> ProfileKinds] : n \in 0..MaxProfiles},
          x \in {"none", "ListProfiles", "GetClusterConfig", "GetDialOptions"} :
         resolve = [ResolveIdle EXCEPT !.rpc = "call", !.provider = kind, !.fqdn = f,
                                       !.profiles = ps, !.fault = x]

SpecResolve == InitResolve /\ [][LocalProvider \/ RemoteProvider \/ resolveTCPHandler]_vars

\* ------------------------------------------------------------ remoteSigner.Sign
\* crypto.Hash values: 0 (no hash), crypto.SHA1 (3), crypto.SHA256, crypto.SHA512 (7).
NoHash == 0
SHA256 == 5
Hashes == {NoHash, 3, SHA256, 7}

\* crypto.SignerOpts: a crypto.Hash, or *rsa.PSSOptions with its salt length.

\* A switch whose default case sends the digest as unhashed.
ReqHashLax(h) ==
    CASE h = SHA256 -> "HASH_SHA256"
      [] OTHER -> "HASH_NONE"

\* The switch on opts.HashFunc(): the hash of the request ("": unsupported).
ReqHash(h) ==
    CASE h = NoHash -> "HASH_NONE"
      [] h = SHA256 -> "HASH_SHA256"
      [] OTHER -> ""

\* opts.(*rsa.PSSOptions): the *int32 salt length of the request, nil or
\* int32 of the salt length, which is the length itself for the lengths here.
ReqSalt(opts) ==
    IF opts.kind = "pss" THEN [set |-> TRUE, v |-> opts.SaltLength]
                         ELSE [set |-> FALSE, v |-> 0]

\* No signature, and what sendRequest may answer.
NoSig == <<>>

\* Sign up to the call of s.sendRequest: the request is built and sent, or
\* the hash function is refused.
SignRequest ==
    /\ sign.rpc = "call"
    /\ IF ReqHash(sign.opts.Hash) = ""
         THEN sign' = [sign EXCEPT
                 !.rpc = "done",
                 !.result = [sig |-> NoSig, err |-> ErrFrom("BadParameter")]]
         ELSE sign' = [sign EXCEPT
                 !.rpc = "sent",
                 !.sent = Append(@, [Digest |-> sign.digest,
                                     Hash |-> ReqHash(sign.opts.Hash),
                                     PssSaltLength |-> ReqSalt(sign.opts)])]
    /\ UNCHANGED <<handlerVars, resolve, reader, strip, bridge, enum, relay, mcpVars>>

\* s.sendRequest returns, and Sign with it: the signature, or the error wrapped.
SignReturn ==
    /\ sign.rpc = "sent"
    /\ \E r \in [sig : {<<7>>, <<7, 8>>}, err : {NilErr}]
                 \cup [sig : {NoSig}, err : {ErrFrom("sendRequest")}] :
         sign' = [sign EXCEPT
             !.rpc = "done",
             !.reply = r,
             !.result = IF r.err # NilErr
                          THEN [sig |-> NoSig, err |-> TraceWrap(r.err)]
                          ELSE [sig |-> r.sig, err |-> NilErr]]
    /\ UNCHANGED <<handlerVars, resolve, reader, strip, bridge, enum, relay, mcpVars>>

\* --------------------------------------------------------------------- SpecSign
\* One Sign call for every digest and every signer option.
InitSign ==
    /\ InitShared
    /\ tcpConns = [p \in Conns |-> <<>>]
    /\ user = [p \in Conns |-> "alice"]
    /\ pc = [p \in Conns |-> "idle"]
    /\ ret = [p \in Conns |-> "dial"]
    /\ resolve = ResolveIdle /\ reader = ReaderIdle
    /\ bridge = [p \in Conns |-> NoBridge]
    /\ enum = Idle /\ relay = Idle /\ stdio = Idle /\ sse = Idle /\ autherr = Idle
    /\ strip = Idle
    /\ \E d \in {<<>>, <<1>>, <<1, 2>>},
          o \in [kind : {"hash"}, Hash : Hashes, SaltLength : {0}]
                 \cup [kind : {"pss"}, Hash : Hashes, SaltLength : {-1, 0, 32}] :
         sign = [rpc |-> "call", digest |-> d, opts |-> o, sent |-> <<>>,
                 reply |-> [sig |-> NoSig, err |-> NilErr],
                 result |-> [sig |-> NoSig, err |-> NilErr]]

SpecSign == InitSign /\ [][SignRequest \/ SignReturn]_vars

\* -------------------------------------------------------------------- SpecStrip
\* One stripSSHSuffix call for every host name under every root cluster and
\* leaf cluster name, with and without a leaf cluster name passed.
ClusterNames == {<<"r">>, <<"l">>, <<"l", "r">>}
Hosts == {<<"h">>, <<"r">>, <<"l", "r">>, <<"h", ".", "l">>}
StripInputs ==
    {h \o Dot \o a \o Dot : h \in Hosts, a \in ClusterNames}
      \cup {h \o Dot \o a \o Dot \o b \o Dot :
               h \in Hosts, a \in ClusterNames, b \in ClusterNames}

\* The call of stripSSHSuffix in resolveSSHInfoForCluster.
StripSuffix ==
    /\ strip.pc = "call"
    /\ strip' = [strip EXCEPT
          !.pc = "done",
          !.target = stripSSHSuffix(strip.s, strip.leafClusterName, strip.rootClusterName)]
    /\ UNCHANGED <<handlerVars, resolve, sign, reader, bridge, enum, relay, mcpVars>>

InitStrip ==
    /\ InitShared
    /\ tcpConns = [p \in Conns |-> <<>>]
    /\ user = [p \in Conns |-> "alice"]
    /\ pc = [p \in Conns |-> "idle"]
    /\ ret = [p \in Conns |-> "dial"]
    /\ resolve = ResolveIdle /\ sign = SignIdle /\ reader = ReaderIdle
    /\ bridge = [p \in Conns |-> NoBridge]
    /\ enum = Idle /\ relay = Idle /\ stdio = Idle /\ sse = Idle /\ autherr = Idle
    /\ \E f \in StripInputs,
          l \in ClusterNames \cup {Empty}, r \in ClusterNames :
         strip = [pc |-> "call", s |-> f, leafClusterName |-> l,
                  rootClusterName |-> r, target |-> Empty]

SpecStrip == InitStrip /\ [][StripSuffix]_vars

\* ---------------------------------------------------------------- MessageReader
\* One MessageReader: the goroutine of Run, the goroutine of startProcess it
\* starts, the transport and the context.  What ReadMessage yields:
\*   "notification", "request", "response": a message of that type;
\*   "unknown": valid JSON of no known type;  "badjson": not JSON;
\*   "readerParse": a reader parse error (isReaderParseError), raw message "".
MaxMsgs == 2

\* json.Unmarshal of the raw message fails.
Unparsable(kind) == kind \in {"badjson", "readerParse"}

\* The case of the switch on base: an unparsed base is the zero value, which
\* is neither a notification nor a request nor a response.
Classify(kind) == IF Unparsable(kind) \/ kind = "unknown" THEN "default" ELSE kind

\* The handler of a case ("": the case has none set and skips the message).
HandlerOf(case) ==
    CASE case = "notification" -> "OnNotification"
      [] case = "request" -> IF reader.cfg.OnRequest THEN "OnRequest" ELSE ""
      [] case = "response" -> IF reader.cfg.OnResponse THEN "OnResponse" ELSE ""
      [] OTHER -> "OnParseError"

\* A handler is invoked for the message read last and returns nil (ok) or an
\* error; late: Run had returned when it was invoked.
Invoke(h, ok) ==
    Append(reader.calls,
           [h |-> h, n |-> reader.reads, ok |-> ok, late |-> reader.run = "returned"])

\* startProcess returns and the goroutine closes finished.
ProcEnds(r) == [r EXCEPT !.proc = "ended", !.finished = TRUE]

\* A loop that goes on after a handler error.
GoesOnAfterError(next) == next

\* Where processing goes once a handler returned an error: the error is
\* returned by processNextMessage, and startProcess returns.
AfterHandlerError(next) == "ended"

\* The position after a handler call that returned ok or not.
AfterCall(r, ok, next) ==
    IF ok \/ AfterHandlerError(next) # "ended"
      THEN [r EXCEPT !.proc = next]
      ELSE ProcEnds(r)

\* startProcess, top of the loop: ctx.Err() != nil ends it.
ProcLoop ==
    /\ reader.proc = "loop"
    /\ reader' = IF reader.ctx THEN ProcEnds(reader) ELSE [reader EXCEPT !.proc = "read"]
    /\ UNCHANGED <<handlerVars, resolve, sign, strip, bridge, enum, relay, mcpVars>>

\* r.cfg.Transport.ReadMessage returns: an error once the transport is closed
\* or at its end, else the next message; a reader parse error goes to
\* OnParseError, any other error ends processing.
ReadMessage ==
    /\ reader.proc = "read"
    /\ \E kind \in {"notification", "request", "response", "unknown", "badjson",
                   "readerParse", "eof"} :
         reader' =
            IF reader.closes > 0 \/ reader.reads = MaxMsgs \/ kind = "eof"
              THEN ProcEnds(reader)
              ELSE [reader EXCEPT !.reads = @ + 1, !.msg = kind,
                                  !.proc = IF kind = "readerParse"
                                             THEN "readError" ELSE "unmarshal"]
    /\ UNCHANGED <<handlerVars, resolve, sign, strip, bridge, enum, relay, mcpVars>>

\* case isReaderParseError(err): OnParseError; its error ends processing,
\* otherwise processNextMessage goes on below the switch.
ReadErrorCase ==
    /\ reader.proc = "readError"
    /\ \E ok \in BOOLEAN :
         reader' = AfterCall([reader EXCEPT !.calls = Invoke("OnParseError", ok)],
                             ok, "unmarshal")
    /\ UNCHANGED <<handlerVars, resolve, sign, strip, bridge, enum, relay, mcpVars>>

\* json.Unmarshal of the raw message: on a parse error OnParseError; its
\* error ends processing, otherwise processNextMessage goes on to the switch.
Unmarshal ==
    /\ reader.proc = "unmarshal"
    /\ \E ok \in BOOLEAN :
         reader' =
            IF Unparsable(reader.msg)
              THEN AfterCall([reader EXCEPT !.calls = Invoke("OnParseError", ok)],
                             ok, "dispatch")
              ELSE [reader EXCEPT !.proc = "dispatch"]
    /\ UNCHANGED <<handlerVars, resolve, sign, strip, bridge, enum, relay, mcpVars>>

\* The switch on base: the handler of the case is invoked and what it
\* returns is returned; a case without handler returns nil.
Dispatch ==
    /\ reader.proc = "dispatch"
    /\ \E ok \in BOOLEAN :
         LET h == HandlerOf(Classify(reader.msg))
         IN  reader' =
                IF h = ""
                  THEN [reader EXCEPT !.proc = "loop"]
                  ELSE AfterCall([reader EXCEPT !.calls = Invoke(h, ok)], ok, "loop")
    /\ UNCHANGED <<handlerVars, resolve, sign, strip, bridge, enum, relay, mcpVars>>

startProcess == ProcLoop \/ ReadMessage \/ ReadErrorCase \/ Unmarshal \/ Dispatch

\* Run starts the goroutine of startProcess.
RunStart ==
    /\ reader.run = "start"
    /\ reader' = [reader EXCEPT !.run = "select", !.proc = "loop"]
    /\ UNCHANGED <<handlerVars, resolve, sign, strip, bridge, enum, relay, mcpVars>>

\* A Run that leaves the transport open.
SelectSkipsClose == "onclose"

\* Where Run goes after its select.
AfterSelect == "close"

\* select: finished is closed, or ctx is done.
RunSelect ==
    /\ reader.run = "select"
    /\ reader.finished \/ reader.ctx
    /\ reader' = [reader EXCEPT !.run = AfterSelect]
    /\ UNCHANGED <<handlerVars, resolve, sign, strip, bridge, enum, relay, mcpVars>>

\* r.cfg.Transport.Close().
RunClose ==
    /\ reader.run = "close"
    /\ reader' = [reader EXCEPT !.run = "onclose", !.closes = @ + 1]
    /\ UNCHANGED <<handlerVars, resolve, sign, strip, bridge, enum, relay, mcpVars>>

\* r.cfg.OnClose(), when set; Run returns.
RunOnClose ==
    /\ reader.run = "onclose"
    /\ reader' = [reader EXCEPT
          !.run = "returned",
          !.onClose = IF reader.cfg.OnClose THEN @ + 1 ELSE @,
          !.closedFirst = reader.closes > 0]
    /\ UNCHANGED <<handlerVars, resolve, sign, strip, bridge, enum, relay, mcpVars>>

Run == RunStart \/ RunSelect \/ RunClose \/ RunOnClose

\* The context of Run is canceled.
Cancel ==
    /\ reader.run \notin {"idle", "returned"} /\ ~reader.ctx
    /\ reader' = [reader EXCEPT !.ctx = TRUE]
    /\ UNCHANGED <<handlerVars, resolve, sign, strip, bridge, enum, relay, mcpVars>>

\* ------------------------------------------------------------------ SpecReader
\* One Run of a MessageReader of every valid configuration, reading up to
\* MaxMsgs messages, with a context that may be canceled at any moment.
InitReader ==
    /\ InitShared
    /\ tcpConns = [p \in Conns |-> <<>>]
    /\ user = [p \in Conns |-> "alice"]
    /\ pc = [p \in Conns |-> "idle"]
    /\ ret = [p \in Conns |-> "dial"]
    /\ resolve = ResolveIdle /\ sign = SignIdle /\ strip = Idle
    /\ bridge = [p \in Conns |-> NoBridge]
    /\ enum = Idle /\ relay = Idle /\ stdio = Idle /\ sse = Idle /\ autherr = Idle
    /\ \E c \in {x \in [OnClose : BOOLEAN, OnRequest : BOOLEAN, OnResponse : BOOLEAN] :
                    x.OnRequest \/ x.OnResponse} :
         reader = [run |-> "start", proc |-> "none", ctx |-> FALSE, finished |-> FALSE,
                   closes |-> 0, onClose |-> 0, closedFirst |-> FALSE, reads |-> 0,
                   msg |-> "", calls |-> <<>>, cfg |-> c]

NextReader == Run \/ startProcess \/ Cancel

SpecReader == InitReader /\ [][NextReader]_vars

\* ------------------------------------------------------------ unmarshalEnumJSON
\* A protobuf enum with the values 0..MaxEnum and one name for each.
MaxEnum == 3
EnumNames == <<"software", "pkcs11", "gcp_kms", "aws_kms", "tpm", "yubikey">>
valToName == [v \in 0..MaxEnum |-> EnumNames[v + 1]]

\* getReciprocalMaps: the map from each value of initial back to its key.
getReciprocalMaps(initial) ==
    [n \in {initial[v] : v \in DOMAIN initial} |->
        CHOOSE v \in DOMAIN initial : initial[v] = n]

\* unmarshalEnumJSON(valToName, nameToVal, data, dst): what it leaves in *dst
\* and whether it returns an error.
\*   AnyType: the dynamic type of anyVal after json.Unmarshal(data, &anyVal)
\*     ("error": the data is not JSON); every JSON number becomes a float64.
\*   castVal: T(val) for a float64, the fraction is discarded.
unmarshalEnumJSON ==
    /\ enum.pc = "call"
    /\ LET nameToVal == getReciprocalMaps(valToName)
           AnyType ==
               CASE enum.data.t = "invalid" -> "error"
                 [] enum.data.t = "number" -> "float64"
                 [] enum.data.t = "null" -> "nil"
                 [] OTHER -> enum.data.t
           castVal == enum.data.int
       IN  enum' =
              CASE AnyType = "error" -> [enum EXCEPT !.pc = "done", !.err = "json"]
                [] AnyType = "string" ->
                     IF enum.data.s \in DOMAIN nameToVal
                       THEN [enum EXCEPT !.pc = "done", !.dst = nameToVal[enum.data.s]]
                       ELSE [enum EXCEPT !.pc = "done", !.err = "invalid value"]
                [] AnyType = "float64" ->
                     IF castVal \in DOMAIN valToName
                       THEN [enum EXCEPT !.pc = "done", !.err = "invalid value"]
                       ELSE [enum EXCEPT !.pc = "done", !.dst = castVal]
                [] OTHER -> [enum EXCEPT !.pc = "done", !.err = "unexpected type"]
    /\ UNCHANGED <<handlerVars, resolve, sign, reader, strip, bridge, relay, mcpVars>>

\* --------------------------------------------------------------------- SpecEnum
\* No handler goroutine runs: the state the single-call specifications of the
\* other packages start from.
InitNoHandler ==
    /\ InitShared
    /\ tcpConns = [p \in Conns |-> <<>>]
    /\ user = [p \in Conns |-> "alice"]
    /\ pc = [p \in Conns |-> "idle"]
    /\ ret = [p \in Conns |-> "dial"]
    /\ bridge = [p \in Conns |-> NoBridge]
    /\ resolve = ResolveIdle /\ sign = SignIdle /\ reader = ReaderIdle
    /\ strip = Idle

\* One unmarshalEnumJSON call for every JSON data and every value of *dst.
\* A number is held as its integral part and its first decimal (1.5: int 1,
\* frac 5); "invalid" is data that is not JSON.
InitEnum ==
    /\ InitNoHandler
    /\ relay = Idle /\ stdio = Idle /\ sse = Idle /\ autherr = Idle
    /\ LET JSONData ==
             [t : {"string"}, s : {EnumNames[i] : i \in 1..MaxEnum + 1} \cup {"bogus"}]
               \cup [t : {"number"}, int : -1..MaxEnum + 1, frac : {0, 5}]
               \cup [t : {"bool", "null", "array", "invalid"}]
       IN  \E d \in JSONData, v \in 0..MaxEnum :
             enum = [pc |-> "call", data |-> d, dst0 |-> v, dst |-> v, err |-> ""]

SpecEnum == InitEnum /\ [][unmarshalEnumJSON]_vars

\* -------------------------------------------------------------- runRelayService
\* The shutdown of the relay service, from the wait for the exit event on.
\* What the wait yields:
\*   "graceful": an exit event whose payload is the context of the shutdown;
\*   "ungraceful": an exit event without payload;
\*   "waitError": WaitForEvent returned an error and the zero event.

\* A shutdown that runs under a context nothing ever cancels.
StopCtxBackground(exit) == "background"

\* ctx of the shutdown: the payload of the exit event when it is a context,
\* process.ExitContext() otherwise.
StopCtx(exit) == IF exit = "graceful" THEN "payload" ELSE "exit"

\* ctx is done: process.ExitContext() is done once the exit event was
\* broadcast or the wait for it failed; the payload context is done once the
\* shutdown has timed out.
CtxDone(r) == r.ctx = "exit" \/ (r.ctx = "payload" /\ r.payloadDone)

runRelayService ==
    /\ \/ \* process.WaitForEvent returns; ctx is chosen.
          /\ relay.pc = "wait"
          /\ \E exit \in {"graceful", "ungraceful", "waitError"} :
               relay' = [relay EXCEPT !.pc = "mark", !.exit = exit, !.ctx = StopCtx(exit)]
       \/ \* The advertised RelayServer is replaced by a clone with Terminating set.
          /\ relay.pc = "mark"
          /\ relay' = [relay EXCEPT !.pc = "setTerminating", !.terminating = TRUE]
       \/ \* tunnelServer.SetTerminating().
          /\ relay.pc = "setTerminating"
          /\ relay' = [relay EXCEPT !.pc = "delay", !.tunnelTerminating = TRUE]
       \/ \* if delay > 0: the select; a ctx that is done now ends it at once.
          /\ relay.pc = "delay"
          /\ relay' = IF relay.delay = 0 THEN [relay EXCEPT !.pc = "stop"]
                      ELSE IF CtxDone(relay)
                        THEN [relay EXCEPT !.pc = "stop", !.waited = "atOnce"]
                        ELSE [relay EXCEPT !.pc = "select"]
       \/ \* case <-ctx.Done()
          /\ relay.pc = "select" /\ CtxDone(relay)
          /\ relay' = [relay EXCEPT !.pc = "stop", !.waited = "ctx"]
       \/ \* case <-time.After(delay)
          /\ relay.pc = "select"
          /\ relay' = [relay EXCEPT !.pc = "stop", !.waited = "delay"]
       \/ \* errgroup.WithContext and the two eg.Go calls.
          /\ relay.pc = "stop"
          /\ relay' = [relay EXCEPT !.pc = "egWait", !.egTunnel = "run", !.egAPI = "run"]
       \/ \* First goroutine: tunnelServer.Close().
          /\ relay.egTunnel = "run"
          /\ relay' = [relay EXCEPT !.egTunnel = "done", !.tunnel = "closed"]
       \/ \* Second goroutine: apiServer.GracefulStop() returns once no RPC is
          \* left, or once apiServer.Stop has run because egCtx is done.
          /\ relay.egAPI = "run" /\ (~relay.rpcs \/ CtxDone(relay))
          /\ relay' = [relay EXCEPT !.egAPI = "done", !.api = "stopped", !.rpcs = FALSE]
       \/ \* eg.Wait() returns when both goroutines have.
          /\ relay.pc = "egWait" /\ relay.egTunnel = "done" /\ relay.egAPI = "done"
          /\ relay' = [relay EXCEPT !.pc = "hbClose"]
       \/ \* hb.Close()
          /\ relay.pc = "hbClose"
          /\ relay' = [relay EXCEPT !.pc = "connClose", !.hbCloses = @ + 1]
       \/ \* conn.Close()
          /\ relay.pc = "connClose"
          /\ relay' = [relay EXCEPT !.pc = "return", !.connCloses = @ + 1]
       \/ \* return nil: the deferred hb.Close(), apiServer.Stop(), listener
          \* closes and tunnelServer.Close() run.
          /\ relay.pc = "return"
          /\ relay' = [relay EXCEPT !.pc = "returned", !.hbCloses = @ + 1]
    /\ UNCHANGED <<handlerVars, resolve, sign, reader, strip, bridge, enum, mcpVars>>

\* The environment of the shutdown: the last RPC of the API server ends, or
\* the context of a graceful shutdown expires.
RelayEnv ==
    /\ relay.pc \notin {"idle", "wait", "returned"}
    /\ \/ relay.rpcs /\ relay' = [relay EXCEPT !.rpcs = FALSE]
       \/ relay.exit = "graceful" /\ ~relay.payloadDone
            /\ relay' = [relay EXCEPT !.payloadDone = TRUE]
    /\ UNCHANGED <<handlerVars, resolve, sign, reader, strip, bridge, enum, mcpVars>>

\* -------------------------------------------------------------------- SpecRelay
\* One shutdown for every kind of exit, with and without a shutdown delay and
\* RPCs in flight on the API server.
InitRelay ==
    /\ InitNoHandler
    /\ enum = Idle /\ stdio = Idle /\ sse = Idle /\ autherr = Idle
    /\ \E delay \in {0, 1}, rpcs \in BOOLEAN :
         relay = [pc |-> "wait", exit |-> "none", ctx |-> "none", payloadDone |-> FALSE,
                  delay |-> delay, rpcs |-> rpcs, terminating |-> FALSE,
                  tunnelTerminating |-> FALSE, tunnel |-> "serving",
                  api |-> "serving", waited |-> "none", egTunnel |-> "none",
                  egAPI |-> "none", hbCloses |-> 0, connCloses |-> 0]

SpecRelay == InitRelay /\ [][runRelayService \/ RelayEnv]_vars

\* ---------------------------------------------------------- handleAuthErrStdio
\* One handleAuthErrStdio call.  Its reader is the MessageReader above, set up
\* with OnParseError, OnRequest and OnNotification; every handler writes the
\* one errMsg of the call to the client.  The ID of a request is its position
\* in the stream, reader.calls[i].n; 0 is the nil ID of mcp.NewRequestId(nil).

\* An OnRequest that leaves errMsg.ID alone.
errMsgIDStale(i) == 0

\* errMsg.ID when handler call i writes errMsg: OnRequest has set it to the ID
\* of its request, the other handlers leave what the last OnRequest left.
errMsgID(i) ==
    LET ids == {reader.calls[j].n : j \in {k \in 1..i : reader.calls[k].h = "OnRequest"}}
    IN  IF ids = {} THEN 0 ELSE CHOOSE n \in ids : \A m \in ids : m <= n

\* What handler call i writes with writer.WriteMessage(ctx, errMsg).
AuthErrWritten(i) ==
    [code |-> "INTERNAL_ERROR", message |-> autherr.authErr.id, id |-> errMsgID(i)]

handleAuthErrStdio ==
    \/ \* NewStdioMessageReader: its error is returned aggregated with authErr,
       \* otherwise reader.Run(ctx) starts.
       /\ autherr.pc = "new"
       /\ IF autherr.parentContext
            THEN /\ autherr' = [autherr EXCEPT !.pc = "run"]
                 /\ reader' = [ReaderIdle EXCEPT
                       !.run = "start",
                       !.cfg = [OnClose |-> FALSE, OnRequest |-> TRUE, OnResponse |-> FALSE]]
            ELSE /\ autherr' = [autherr EXCEPT !.pc = "returned",
                                               !.ret = ErrFrom("aggregate")]
                 /\ UNCHANGED reader
       /\ UNCHANGED <<handlerVars, resolve, sign, strip, bridge, enum, relay, stdio, sse>>
    \/ \* reader.Run(ctx) has returned: return trace.Wrap(authErr).
       /\ autherr.pc = "run" /\ reader.run = "returned"
       /\ autherr' = [autherr EXCEPT !.pc = "returned", !.ret = TraceWrap(autherr.authErr)]
       /\ UNCHANGED <<handlerVars, resolve, sign, reader, strip, bridge, enum, relay,
                      stdio, sse>>

\* ------------------------------------------------------------------ SpecAuthErr
\* One call for each of two authentication errors, with and without the
\* ParentContext the reader needs, reading up to MaxMsgs client messages.
InitAuthErr ==
    /\ InitNoHandler
    /\ enum = Idle /\ relay = Idle /\ stdio = Idle /\ sse = Idle
    /\ \E e \in {"access denied", "expired certificate"}, c \in BOOLEAN :
         autherr = [pc |-> "new", authErr |-> ErrFrom(e), parentContext |-> c,
                    ret |-> NilErr]

SpecAuthErr == InitAuthErr /\ [][handleAuthErrStdio \/ NextReader]_vars

\* ------------------------------------------------------------------ handleStdio
\* One handleStdio call: its own goroutine, the goroutines of its two
\* MessageReaders ("client": clientRequestReader, "server":
\* serverResponseReader), the goroutine with which os/exec watches ctx once
\* the process is started, and the MCP server process.  A reader is the
\* MessageReader above reduced to what handleStdio sees of it: run is the
\* position of Run, proc that of startProcess, in the types of the messages
\* read and out the WriteMessage calls of its handlers.
MaxStdioMsgs == 2

\* A handler of the client reader that writes every message to the client.
WriteAllToClient(side, kind, direction) == "client"

\* Where the handler of a message writes: OnRequest of the client reader as
\* replyDirection says, its OnNotification to the server; OnNotification and
\* OnResponse of the server reader to the client.  The server reader has no
\* OnRequest ("": the message is skipped).
WriteTarget(side, kind, direction) ==
    CASE side = "client" /\ kind = "request" ->
           IF direction = "replyToClient" THEN "client" ELSE "server"
      [] side = "client" -> "server"
      [] kind = "request" -> ""
      [] OTHER -> "client"

\* A function made by a sync.OnceValue that runs its body on every call.
RunsOnEveryCall(once) == once # "running"

\* sync.OnceValue: a call runs the body only when no call has yet.
OnceRuns(once) == once = "fresh"

\* A call of cmd.Cancel: the body starts when the once
\* lets it, else the call waits for the body that runs, or returns what the
\* body returned.
CallCancel(s) ==
    IF OnceRuns(s.once)
      THEN [s EXCEPT !.cancelCalls = @ + 1, !.once = "running", !.body = "getpgid",
                     !.bodyRuns = @ + 1, !.procAtCancel = s.proc]
      ELSE [s EXCEPT !.cancelCalls = @ + 1]

\* Deferred functions that emit the end event whether or not it was deferred.
EndAlways(s) == [s EXCEPT !.pc = "returned", !.ctx = TRUE, !.ends = @ + 1]

\* A return of handleStdio or handleStdioToSSE: the deferred functions run,
\* emitEndEvent when it was deferred, then cancel.
RunDeferred(s) ==
    [s EXCEPT !.pc = "returned", !.ctx = TRUE,
              !.ends = IF s.deferEnd THEN @ + 1 ELSE @]

\* The goroutine of handleStdio.
handleStdio ==
    /\ stdio.pc # "idle" /\ ~stdio.panic
    /\ \/ \* Lines 74-146: a missing MCP spec, or an error of newSessionHandler,
          \* setRunAsHostUser or NewStdioMessageReader returns; otherwise the
          \* command, its cancel function and the readers are set up.
          /\ stdio.pc = "setup"
          /\ \E fail \in BOOLEAN :
               stdio' = IF fail THEN RunDeferred(stdio) ELSE [stdio EXCEPT !.pc = "go"]
       \/ \* go clientRequestReader.Run(ctx); go serverResponseReader.Run(ctx)
          /\ stdio.pc = "go"
          /\ stdio' = [stdio EXCEPT
                !.pc = "emitStart",
                !.rd = [s \in {"client", "server"} |-> [@[s] EXCEPT !.run = "select", !.proc = "loop"]]]
       \/ \* emitStartEvent; defer emitEndEvent
          /\ stdio.pc = "emitStart"
          /\ stdio' = [stdio EXCEPT !.pc = "start", !.starts = @ + 1, !.deferEnd = TRUE]
       \/ \* cmd.Start(): an error returns; a command whose ctx is done is
          \* not started.
          /\ stdio.pc = "start"
          /\ \E ok \in BOOLEAN :
               stdio' = IF ok /\ ~stdio.ctx
                          THEN [stdio EXCEPT !.pc = "wait", !.proc = "running",
                                             !.watcher = "watching"]
                          ELSE RunDeferred(stdio)
       \/ \* cmd.Wait() returns once the process has exited and the goroutine
          \* watching ctx is not inside cmd.Cancel.
          /\ stdio.pc = "wait" /\ stdio.proc = "exited" /\ stdio.watcher # "cancel"
          /\ stdio' = [stdio EXCEPT !.pc = "processDone", !.watcher = "done"]
       \/ \* processDone <- struct{}{}; return nil
          /\ stdio.pc = "processDone"
          /\ stdio' = RunDeferred([stdio EXCEPT !.processDone = @ + 1])
    /\ UNCHANGED <<handlerVars, resolve, sign, reader, strip, bridge, enum, relay,
                   sse, autherr>>

\* The goroutines of the reader of one side.  Reading a message and the
\* WriteMessage call of its handler are one step, as nothing else sees the
\* read; so are the select of Run, Transport.Close() and the call of OnClose.
StdioReader(side) ==
    /\ stdio.pc # "idle" /\ ~stdio.panic
    /\ LET r == stdio.rd[side]
           \* The well-formed messages a side sends.
           StdioKinds ==
               IF side = "client" THEN {"request", "notification"}
               ELSE {"response", "notification", "request"}
       IN
       \/ \* startProcess ends: ctx is done, the transport is closed, the
          \* stream is at its end or a handler returned an error.
          /\ r.proc = "loop"
          /\ stdio' = [stdio EXCEPT !.rd[side].proc = "ended"]
       \/ \* processNextMessage: the next message is read and handled.  The
          \* server's pipe carries messages once the process is started.
          /\ r.proc = "loop" /\ ~stdio.ctx /\ r.run = "select"
          /\ Len(stdio.rd["client"].in) + Len(stdio.rd["server"].in) < MaxStdioMsgs
          /\ side = "server" => stdio.proc # "none"
          /\ \E kind \in StdioKinds, direction \in {"replyToClient", "replyToServer"} :
               LET to == WriteTarget(side, kind, direction)
                   n == Len(r.in) + 1
               IN  stdio' = [stdio EXCEPT
                      !.rd[side].in = Append(@, kind),
                      !.rd[side].out =
                          IF to = "" THEN @
                          ELSE Append(@, [n |-> n, kind |-> kind, to |-> to])]
       \/ \* Run: the select, Transport.Close() and, for the client reader,
          \* OnClose, which calls cmd.Cancel(); the server reader has no
          \* OnClose and returns.
          /\ r.run = "select" /\ (r.proc = "ended" \/ stdio.ctx)
          /\ stdio' = IF side = "client"
                        THEN [CallCancel(stdio) EXCEPT !.rd[side].run = "cancel"]
                        ELSE [stdio EXCEPT !.rd[side].run = "returned"]
       \/ \* cmd.Cancel() returns to OnClose, and Run returns.
          /\ r.run = "cancel" /\ stdio.once = "done"
          /\ stdio' = [stdio EXCEPT !.rd[side].run = "returned"]
    /\ UNCHANGED <<handlerVars, resolve, sign, reader, strip, bridge, enum, relay,
                   sse, autherr>>

\* The cancel function of setGracefulStop, on the goroutine of the call that
\* runs it, and the goroutine of os/exec that calls it when ctx is done.
\* A signal is recorded with whether it was delivered and with what
\* processDone held when it was sent.
setGracefulStop ==
    /\ stdio.pc # "idle" /\ ~stdio.panic
    /\ \/ \* os/exec: ctx is done while the process runs or is waited for.
          /\ stdio.watcher = "watching" /\ stdio.ctx
          /\ stdio' = [CallCancel(stdio) EXCEPT !.watcher = "cancel"]
       \/ /\ stdio.watcher = "cancel" /\ stdio.once = "done"
          /\ stdio' = [stdio EXCEPT !.watcher = "done"]
       \/ \* syscall.Getpgid(cmd.Process.Pid): cmd.Process is nil until Start
          \* has succeeded; an error is returned.
          /\ stdio.body = "getpgid"
          /\ \E ok \in BOOLEAN :
               stdio' = IF stdio.proc = "none"
                          THEN [stdio EXCEPT !.panic = TRUE]
                          ELSE IF ok THEN [stdio EXCEPT !.body = "sigint"]
                          ELSE [stdio EXCEPT !.body = "none", !.once = "done"]
       \/ \* syscall.Kill(-pgid, syscall.SIGINT); its error returns what
          \* syscall.Kill(-pgid, syscall.SIGKILL) returns.
          /\ stdio.body = "sigint"
          /\ \E ok \in BOOLEAN :
               LET int == [sig |-> "SIGINT", ok |-> ok, processDone |-> stdio.processDone]
                   kill == [sig |-> "SIGKILL", ok |-> TRUE, processDone |-> stdio.processDone]
               IN  stdio' =
                      IF ok THEN [stdio EXCEPT !.body = "select",
                                               !.signals = Append(@, int)]
                      ELSE [stdio EXCEPT !.body = "none", !.once = "done",
                                         !.signals = @ \o <<int, kill>>]
       \/ \* case <-processDone: return nil
          /\ stdio.body = "select" /\ stdio.processDone > 0
          /\ stdio' = [stdio EXCEPT !.body = "none", !.once = "done",
                                    !.processDone = @ - 1]
       \/ \* case <-time.After(10 * time.Second), with processDone empty:
          \* return trace.Wrap(syscall.Kill(-pgid, syscall.SIGKILL))
          /\ stdio.body = "select" /\ stdio.processDone = 0
          /\ stdio' = [stdio EXCEPT
                !.body = "none", !.once = "done",
                !.signals = Append(@, [sig |-> "SIGKILL", ok |-> TRUE,
                                       processDone |-> stdio.processDone])]
    /\ UNCHANGED <<handlerVars, resolve, sign, reader, strip, bridge, enum, relay,
                   sse, autherr>>

\* What happens to the call from outside: the context handleStdio was given
\* is canceled, or the MCP server process exits.
StdioEnv ==
    /\ stdio.pc \notin {"idle", "setup"} /\ ~stdio.panic
    /\ \/ ~stdio.ctx /\ stdio' = [stdio EXCEPT !.ctx = TRUE]
       \/ stdio.proc = "running" /\ stdio' = [stdio EXCEPT !.proc = "exited"]
    /\ UNCHANGED <<handlerVars, resolve, sign, reader, strip, bridge, enum, relay,
                   sse, autherr>>

\* ------------------------------------------------------------ handleStdioToSSE
\* The goroutine of one handleStdioToSSE call.
handleStdioToSSE ==
    /\ \/ \* Lines 255-296: an error of makeSSEBaseURI, makeSessionHandler,
          \* ConnectSSEServer, NewMessageReader or makeStdioClientRequestReader
          \* returns.
          /\ sse.pc \in {"baseURI", "session", "connect", "serverReader", "clientReader"}
          /\ \E fail \in BOOLEAN :
               sse' = IF fail THEN RunDeferred(sse)
                      ELSE [sse EXCEPT !.pc =
                              CASE sse.pc = "baseURI" -> "session"
                                [] sse.pc = "session" -> "connect"
                                [] sse.pc = "connect" -> "serverReader"
                                [] sse.pc = "serverReader" -> "clientReader"
                                [] OTHER -> "emitStart"]
       \/ \* session.emitStartEvent; defer session.emitEndEvent
          /\ sse.pc = "emitStart"
          /\ sse' = [sse EXCEPT !.pc = "run", !.starts = @ + 1, !.deferEnd = TRUE]
       \/ \* clientRequestReader.Run(ctx) returns; return nil
          /\ sse.pc = "run"
          /\ sse' = RunDeferred(sse)
    /\ UNCHANGED <<handlerVars, resolve, sign, reader, strip, bridge, enum, relay,
                   stdio, autherr>>

\* -------------------------------------------------------------------- SpecStdio
\* One MCP session, served by handleStdio or by handleStdioToSSE, with up to
\* MaxStdioMsgs messages read from the client and the server together.
InitStdio ==
    /\ InitNoHandler
    /\ enum = Idle /\ relay = Idle /\ autherr = Idle
    /\ \/ /\ sse = Idle
          /\ stdio = [pc |-> "setup", ctx |-> FALSE, starts |-> 0, ends |-> 0,
                      deferEnd |-> FALSE, proc |-> "none", processDone |-> 0,
                      panic |-> FALSE, once |-> "fresh", body |-> "none",
                      bodyRuns |-> 0, cancelCalls |-> 0, procAtCancel |-> "none",
                      signals |-> <<>>, watcher |-> "none",
                      rd |-> [s \in {"client", "server"} |->
                                [run |-> "none", proc |-> "none", in |-> <<>>,
                                 out |-> <<>>]]]
       \/ /\ stdio = Idle
          /\ sse = [pc |-> "baseURI", ctx |-> FALSE, starts |-> 0, ends |-> 0,
                    deferEnd |-> FALSE]

SpecStdio ==
    InitStdio /\ [][\/ handleStdio \/ (\E side \in {"client", "server"} : StdioReader(side))
                    \/ setGracefulStop \/ StdioEnv \/ handleStdioToSSE]_vars

\* ================================================================== claims
Callers(u) == {p \in Conns : user[p] = u}
AllReturned(u) == Callers(u) # {} /\ \A p \in Callers(u) : pc[p] = "returned"

\* C1 as stated: when N concurrent userSSHConfig calls for one username on an
\* empty cache have all returned, the provider was invoked exactly once and
\* all calls returned the identical config or the identical error.
C1_ExactlyOnceAlways ==
    \A u \in Users : AllReturned(u) =>
        /\ issued[u] = 1
        /\ \A p, q \in Callers(u) : cfg[p] = cfg[q] /\ err[p] = err[q]

\* C1 amended: when the N calls have all returned, each returned a config or
\* an error and never both; the provider was invoked at least once and at
\* most N times; if no call returned an error it was invoked exactly once
\* and all calls returned the identical config; all calls that returned a
\* config returned the identical one; and if it was invoked exactly once all
\* calls returned the identical result (calls fail alike only when they
\* waited on the same failed issuance).
C1_ExactlyOnceOnSuccess ==
    \A u \in Users : AllReturned(u) =>
        /\ issued[u] >= 1 /\ issued[u] <= Cardinality(Callers(u))
        /\ \A p \in Callers(u) : (cfg[p] = NoCfg) # (err[p] = NoErr)
        /\ (\A p \in Callers(u) : err[p] = NoErr) => issued[u] = 1
        /\ \A p, q \in Callers(u) :
             err[p] = NoErr /\ err[q] = NoErr => cfg[p] = cfg[q]
        /\ issued[u] = 1 =>
             \A p, q \in Callers(u) : cfg[p] = cfg[q] /\ err[p] = err[q]

\* C1 witness: every goroutine called for the same username, all returned
\* the one issued config, and the provider was invoked once.
C1_Witness ==
    \E u \in Users :
        /\ Callers(u) = Conns /\ AllReturned(u)
        /\ issued[u] = 1
        /\ \A p \in Conns : cfg[p] = [User |-> u, serial |-> 1] /\ err[p] = NoErr

\* C2 as stated: under every interleaving of userSSHConfig and
\* retryDialTargetSSH calls, a userSSHConfig call never reaches its final
\* cache read with the entry absent (the type assertion on the nil entry),
\* and what it returns is an error or a non-nil config issued for its user.
C2_NeverAbsentAtFinalRead ==
    \A p \in Conns :
        /\ pc[p] # "panic_assert"
        /\ pc[p] \in {"dial_handshake", "retry_tcp"} =>
             cfg[p] # NoCfg /\ cfg[p].User = user[p] /\ err[p] = NoErr

\* C3 as stated: in a run in which the target rejected every handshake, the
\* handler performs at most 2 outbound SSH client handshakes in total,
\* counted over all invocations of the public-key callback.
C3_AtMostTwoHandshakes ==
    \A p \in Conns : Len(sshClients[p]) = 0 => handshakes[p] <= 2

\* An SSH client counts as closed when Close was invoked on it or its
\* transport was closed; a TCP conn when it is no longer open.
ClientClosed(p, i) ==
    sshClients[p][i].closes > 0 \/ ~tcpConns[p][sshClients[p][i].tcp].up

\* C4 as stated: when handleTCPConnector has returned, every TCP conn it
\* dialed, the local conn, the inbound server conn and every outbound SSH
\* client it established are closed.
C4_AllClosedOnReturn ==
    \A p \in Conns : pc[p] = "done" =>
        /\ \A k \in 1..Len(tcpConns[p]) : ~tcpConns[p][k].up
        /\ localTCPConn[p].opened => localTCPConn[p].closes > 0
        /\ serverConn[p].opened => serverConn[p].closes > 0
        /\ \A i \in 1..Len(sshClients[p]) : ClientClosed(p, i)

\* C5 as stated: whenever proxying starts, targetClient is a non-nil, still
\* open outbound SSH client.
C5_ProxyHasOpenClient ==
    \A p \in Conns : pc[p] = "proxy" =>
        /\ targetClient[p] # 0
        /\ sshClients[p][targetClient[p]].closes = 0
        /\ tcpConns[p][sshClients[p][targetClient[p]].tcp].up

\* C6 as stated: a userSSHConfig call that started after a retry deleted the
\* entry of its username never returns a config deleted before it started,
\* and when the first such call has ended, a provider issuance for the
\* username has been started since the deletion.
C6_ReissueAfterDelete ==
    \A p \in Conns :
        /\ pc[p] \in {"dial_handshake", "retry_tcp"} => cfg[p] \notin seenStale[p]
        /\ (pc[p] \in {"dial_handshake", "retry_tcp", "cb_return", "panic_assert"}
              /\ first[p] >= 0) => issued[user[p]] > first[p]

\* The goroutines with a provider UserSSHConfig call in flight for u.
InFlight(u) == {p \in Conns : pc[p] = "usc_provider" /\ user[p] = u}

\* C7: in every reachable state at most one provider UserSSHConfig call is
\* in flight per username.
C7_OneIssuanceInFlight ==
    \A u \in Users : Cardinality(InFlight(u)) <= 1

\* C7 witness: after a retry deleted the entry of u, a provider call for u is
\* in flight while another connection for u waits on that flight.
C7_Witness ==
    \E u \in Users :
        /\ stale[u] # {}
        /\ Cardinality(InFlight(u)) = 1
        /\ \E q \in Conns : pc[q] = "fg_wait" /\ user[q] = u

\* C8 as stated: when handleTCPConnector has returned, Close was invoked
\* exactly once on targetTCPConn, on the local conn, on the inbound server
\* conn and on every established outbound SSH client, and Close is never
\* invoked on a client that was not established (a nil targetClient).
C8_EachClosedExactlyOnce ==
    \A p \in Conns :
        /\ pc[p] # "panic_nil"
        /\ pc[p] = "done" =>
             /\ Len(tcpConns[p]) > 0 => tcpConns[p][1].closes = 1
             /\ localTCPConn[p].opened => localTCPConn[p].closes = 1
             /\ serverConn[p].opened => serverConn[p].closes = 1
             /\ \A i \in 1..Len(sshClients[p]) : sshClients[p][i].closes = 1

\* The fqdn descends from the root cluster of a profile or from one of its
\* leaf clusters, whether or not the clients of the profile can be obtained.
InSomeCluster(profiles, fqdn) ==
    \E i \in 1..Len(profiles) :
        \/ HasSuffix(fqdn, Dot \o profiles[i].root \o Dot)
        \/ \E k \in 1..Len(profiles[i].leaves) :
             HasSuffix(fqdn, Dot \o profiles[i].leaves[k] \o Dot \o profiles[i].root \o Dot)

\* C9 as stated: with a profile of root cluster R whose leaf cluster L is
\* reachable, the local provider resolves host.L.R. to the leaf cluster:
\* leaf-cluster qualifier L, cluster L and bare hostname host.
C9_LeafBeforeRoot ==
    (/\ resolve.rpc = "done" /\ resolve.provider = "local"
     /\ resolve.fault = "none"
     /\ Len(resolve.profiles) >= 1
     /\ resolve.profiles[1] = [root |-> <<"r">>, leaves |-> << <<"l">> >>, mode |-> "ok"]
     /\ resolve.fqdn = <<"h", ".", "l", ".", "r", ".">>)
    => /\ resolve.provided.err = NilErr
       /\ resolve.provided.info.LeafCluster = <<"l">>
       /\ resolve.provided.info.Cluster = <<"l">>
       /\ resolve.provided.info.Hostname = <<"h">>

\* C10: when the profiles were listed and the fqdn descends from no cluster
\* of any profile, the provider (local or remote) and resolveTCPHandler both
\* return errNoTCPHandler itself, with no wrapper around it.
C10_SentinelUnwrapped ==
    (/\ resolve.rpc \in {"provided", "done"}
     /\ resolve.fault # "ListProfiles"
     /\ ~InSomeCluster(resolve.profiles, resolve.fqdn))
    => /\ resolve.provided.err = errNoTCPHandler
       /\ resolve.rpc = "done" => resolve.handler.err = errNoTCPHandler

\* C10 witness: resolveTCPHandler has returned for an fqdn that descends from
\* no cluster of the two profiles, and holds the sentinel.
C10_Witness ==
    /\ resolve.rpc = "done"
    /\ Len(resolve.profiles) = 2
    /\ ~InSomeCluster(resolve.profiles, resolve.fqdn)
    /\ resolve.handler.err = errNoTCPHandler

\* C11: when the first handshake of a dialTargetSSH call failed, the failed
\* config is out of the cache for good once the retry deleted it, the config
\* the retry obtains is not the failed one, the retry dials a new TCP conn,
\* performs exactly one further handshake, on that conn, and its outcome is
\* what the dialTargetSSH call returns.
C11_RetryOnce ==
    \A p \in Conns :
        /\ attempts[p] <= 2
        /\ pc[p] = "retry_delete" => attempts[p] = 1 /\ failed[p] # NoCfg
        /\ (ret[p] = "retry" /\ failed[p] # NoCfg) =>
              /\ failed[p] \in stale[user[p]]
              /\ sshClientConfig[user[p]] # failed[p]
        /\ pc[p] = "retry_tcp" =>
              /\ cfg[p] # NoCfg /\ cfg[p] # failed[p] /\ cfg[p].User = user[p]
              /\ attempts[p] = 1
        /\ pc[p] = "retry_handshake" =>
              /\ attempts[p] = 1 /\ Len(tcpConns[p]) >= 2
              /\ tcpConns[p][Len(tcpConns[p])] = NewTCPConn
        /\ (pc[p] = "cb_return" /\ attempts[p] = 2) =>
              /\ ret[p] = "retry"
              /\ tcpConns[p][Len(tcpConns[p])].hs = 1
              /\ IF err[p] = NoErr
                   THEN /\ Len(sshClients[p]) > 0
                        /\ sshClients[p][Len(sshClients[p])].tcp = Len(tcpConns[p])
                   ELSE /\ err[p] = ErrOf("NewClientConn", 0)
                        /\ ~tcpConns[p][Len(tcpConns[p])].up

\* C11 witness: a dialTargetSSH call whose first handshake failed has ended
\* with a client from the one handshake of its retry, while the cache holds
\* a config issued after the failed one was deleted.
C11_Witness ==
    \E p \in Conns :
        /\ pc[p] = "cb_return" /\ ret[p] = "retry" /\ attempts[p] = 2
        /\ err[p] = NoErr
        /\ stale[user[p]] # {}
        /\ sshClientConfig[user[p]] # NoCfg

\* C12: when the provider's UserSSHConfig failed, nothing is in the cache for
\* that username when fn ends, the failure changes no cache entry, and the
\* dialTargetSSH (or retry) that asked for the config returns the error with
\* no config, no handshake of its own and, in dialTargetSSH, no retry.
C12_IssuanceFailureAborts ==
    /\ [](\A p \in Conns :
            /\ (pc[p] = "fg_done" /\ err[p] # NoErr) =>
                  sshClientConfig[user[p]] = NoCfg
            /\ (pc[p] = "cb_return" /\ err[p].op = "UserSSHConfig") =>
                  /\ cfg[p] = NoCfg
                  /\ attempts[p] = (IF ret[p] = "dial" THEN 0 ELSE 1)
                  /\ tcpDials[p] = 0
                  /\ Len(tcpConns[p]) = 1)
    /\ [][\A p \in Conns :
            (pc[p] = "usc_provider" /\ pc'[p] = "fg_done") =>
                sshClientConfig' = sshClientConfig]_vars

\* C12 witness: a dialTargetSSH call has returned the provider's error
\* before any handshake, while the cache holds an entry of the other user.
C12_Witness ==
    \E p \in Conns, u \in Users :
        /\ pc[p] = "cb_return" /\ ret[p] = "dial"
        /\ err[p].op = "UserSSHConfig" /\ attempts[p] = 0
        /\ u # user[p] /\ sshClientConfig[u] # NoCfg

\* C13: when the initial dialTargetTCP failed, handleTCPConnector has
\* returned the dial error after that one dial: connector was not invoked,
\* no inbound handshake and no callback was started, and no credentials
\* were requested.
C13_DialFailureIsFinal ==
    \A p \in Conns :
        (pc[p] \notin {"idle", "start"} /\ Len(tcpConns[p]) = 0) =>
            /\ pc[p] = "done"
            /\ err[p] = ErrOf("dialTargetTCP", 0) /\ connErr[p] = err[p]
            /\ tcpDials[p] = 1
            /\ localTCPConn[p] = NoConn /\ serverConn[p] = NoConn
            /\ callbacks[p] = 0 /\ decisions[p] = <<>> /\ banners[p] = <<>>
            /\ attempts[p] = 0 /\ handshakes[p] = 0
            /\ issued[user[p]] = 0 /\ sshClientConfig[user[p]] = NoCfg

\* C13 witness: the run has ended on the failure of its first TCP dial.
C13_Witness ==
    /\ pc[1] = "done" /\ tcpDials[1] = 1 /\ Len(tcpConns[1]) = 0
    /\ err[1] = ErrOf("dialTargetTCP", 0)

\* C14 as stated: when the inbound SSH handshake failed, handleTCPConnector
\* has returned its error without a server conn and without bridging, and
\* every outbound SSH client established during the handshake is closed.
C14_HandshakeFailureReleases ==
    \A p \in Conns :
        (pc[p] = "done" /\ err[p] = ErrOf("NewServerConn", 0)) =>
            /\ serverConn[p] = NoConn
            /\ \A i \in 1..Len(sshClients[p]) : ClientClosed(p, i)

\* C15: within one handleTCPConnector run the target TCP dial has completed
\* before connector is invoked and before any callback runs; while a
\* callback's dialTargetSSH (with its retry) runs, that callback has returned
\* no decision, and every earlier callback has; bridging starts only after
\* every callback has returned, a key was accepted and the inbound handshake
\* has yielded the server conn.
C15_StepsInOrder ==
    LET InCallback(p) ==
            pc[p] \in {"usc_load", "fg_do", "fg_wait", "fg_fn", "usc_provider", "usc_store",
                       "fg_done", "usc_after", "dial_handshake", "retry_delete",
                       "retry_tcp", "retry_handshake", "cb_return", "cb_sleep"}
    IN
    \A p \in Conns :
        /\ (pc[p] = "connector" \/ localTCPConn[p].opened) =>
              Len(tcpConns[p]) >= 1 /\ tcpDials[p] >= 1
        /\ callbacks[p] > 0 => localTCPConn[p].opened
        /\ InCallback(p) =>
              /\ callbacks[p] > 0 /\ offered[p] # ""
              /\ Len(decisions[p]) = callbacks[p] - 1
              /\ ~serverConn[p].opened
        /\ pc[p] \in {"cb_return", "cb_sleep"} => attempts[p] <= 2
        /\ pc[p] = "server_handshake" =>
              /\ Len(decisions[p]) = callbacks[p] /\ offered[p] = ""
              /\ ~serverConn[p].opened
        /\ (pc[p] = "proxy" \/ serverConn[p].opened) =>
              /\ Len(decisions[p]) = callbacks[p] /\ offered[p] = ""
              /\ accepted[p]
              /\ \E i \in 1..Len(decisions[p]) : decisions[p][i].accept
        /\ pc[p] = "proxy" => serverConn[p].opened /\ serverConn[p].closes = 0

\* C15 witness: bridging has started after two callbacks, of which the first
\* rejected its key after a failed retry and the second accepted.
C15_Witness ==
    /\ pc[1] = "proxy" /\ callbacks[1] = 2 /\ Len(decisions[1]) = 2
    /\ ~decisions[1][1].accept /\ decisions[1][2].accept
    /\ tcpDials[1] = 3

\* C16: a callback invocation accepted the offered key if and only if its
\* dialTargetSSH succeeded, and any two invocations whose dialTargetSSH ended
\* alike decided alike, whatever keys they were offered.
C16_DecisionIgnoresKey ==
    LET AllDecisions == UNION {{decisions[p][i] : i \in 1..Len(decisions[p])} : p \in Conns}
    IN
    /\ \A d \in AllDecisions : d.accept <=> (d.err = NoErr)
    /\ \A d1, d2 \in AllDecisions :
         ((d1.err = NoErr) <=> (d2.err = NoErr)) => (d1.accept <=> d2.accept)

\* C16 witness: two invocations for different keys were both accepted, and
\* there the second key was offered after a dial that succeeded by retry.
C16_Witness ==
    /\ Len(decisions[1]) = 2
    /\ decisions[1][1].key # decisions[1][2].key
    /\ decisions[1][1].accept /\ decisions[1][2].accept

\* C17 as stated: each time dialTargetSSH failed inside the callback, one
\* banner with the error of that attempt was sent, and it was sent before
\* the callback returned the rejection: at the return of the k-th rejection
\* exactly k banners were sent and the k-th carries that attempt's error.
C17_BannerBeforeReject ==
    LET Rejects(p, i) == Cardinality({j \in 1..i : ~decisions[p][j].accept})
    IN
    \A p \in Conns :
        /\ pc[p] # "panic_banner"
        /\ \A i \in 1..Len(decisions[p]) :
             ~decisions[p][i].accept =>
                /\ decisions[p][i].sent = Rejects(p, i)
                /\ Len(banners[p]) >= Rejects(p, i)
                /\ banners[p][Rejects(p, i)] = decisions[p][i].err

\* C18: a userSSHConfig call waits only inside fg.Do and only for a running
\* flight of its own username, led by a call for that username; in every
\* other position it can take its next step whatever flights of other
\* usernames are running; and all waiters of a username wait on one flight.
C18_UsersIndependent ==
    LET Running(p) ==
            pc[p] \in {"usc_load", "fg_do", "fg_fn", "usc_provider", "usc_store",
                       "fg_done", "usc_after"}
    IN
    \A p \in Conns :
        /\ pc[p] = "fg_wait" =>
              /\ fg[user[p]] \in Conns \ {p}
              /\ user[fg[user[p]]] = user[p]
              /\ pc[fg[user[p]]] \in {"fg_fn", "usc_provider", "usc_store", "fg_done"}
        /\ Running(p) => ENABLED userSSHConfig(p)
        /\ (pc[p] = "fg_do" /\ fg[user[p]] = 0) =>
              ENABLED (FgDo(p) /\ pc'[p] = "fg_fn")

\* C18 witness: provider calls for two usernames are in flight at once.
C18_Witness ==
    \E p, q \in Conns :
        /\ user[p] # user[q]
        /\ pc[p] = "usc_provider" /\ pc[q] = "usc_provider"

\* C19: every cache entry under username u, and every config a userSSHConfig
\* call for u has returned to its caller, is a config the provider issued
\* in a UserSSHConfig call made with username u.
C19_ConfigBoundToUser ==
    /\ \A u \in Users :
         sshClientConfig[u] # NoCfg =>
            /\ sshClientConfig[u].User = u
            /\ sshClientConfig[u].serial \in 1..issued[u]
    /\ \A p \in Conns :
         (pc[p] \in {"dial_handshake", "retry_tcp", "returned"} /\ cfg[p] # NoCfg) =>
            /\ cfg[p].User = user[p]
            /\ cfg[p].serial \in 1..issued[user[p]]
         
\* C19 witness: both usernames have an entry, and a call has returned a
\* config to a dialTargetSSH for one of them after a deletion.
C19_Witness ==
    /\ \A u \in Users : sshClientConfig[u] # NoCfg
    /\ \E p \in Conns :
         /\ pc[p] = "retry_tcp" /\ cfg[p] # NoCfg
         /\ stale[user[p]] # {}

\* C20: an entry of the cache changes or disappears in one step only: the
\* Delete of a retryDialTargetSSH for its own username, which removes it.
\* No step of a call for another username, no handshake, no failed issuance
\* and no Store replaces or removes it.
C20_OnlyRetryInvalidates ==
    [][\A u \in Users :
          (sshClientConfig[u] # NoCfg /\ sshClientConfig'[u] # sshClientConfig[u]) =>
              /\ sshClientConfig'[u] = NoCfg
              /\ \E p \in Conns :
                   /\ user[p] = u
                   /\ pc[p] = "retry_delete" /\ pc'[p] = "usc_load"]_vars

\* C20 witness: the first entry of one username is still there after a
\* successful dial with it, while a retry for the other username has
\* deleted that one's entry and an issuance for it has failed.
C20_Witness ==
    \E u, v \in Users, p \in Conns :
        /\ u # v
        /\ sshClientConfig[u] = [User |-> u, serial |-> 1] /\ issued[u] = 1
        /\ user[p] = u /\ pc[p] = "cb_return" /\ err[p] = NoErr /\ attempts[p] = 1
        /\ stale[v] # {} /\ issued[v] = 2 /\ sshClientConfig[v] = NoCfg

\* C21: a provider UserSSHConfig call for username u starts only in fn of the
\* flight for u and only while the cache holds no entry for u; a call whose
\* first Load finds an entry returns that entry and starts no issuance; fn
\* that finds an entry stored meanwhile ends without an issuance; and a config
\* returned after fg.Do is the entry the cache holds then.
C21_IssueOnlyOnMiss ==
    [][/\ \A u \in Users :
            issued'[u] # issued[u] =>
               /\ sshClientConfig[u] = NoCfg
               /\ issued'[u] = issued[u] + 1
               /\ \E p \in Conns :
                    /\ user[p] = u /\ fg[u] = p
                    /\ pc[p] = "fg_fn" /\ pc'[p] = "usc_provider"
       /\ \A p \in Conns :
            /\ (pc[p] = "usc_load" /\ pc'[p] # pc[p]
                  /\ sshClientConfig[user[p]] # NoCfg) =>
                  /\ pc'[p] \in {"returned", "dial_handshake", "retry_tcp"}
                  /\ cfg'[p] = sshClientConfig[user[p]] /\ err'[p] = NoErr
                  /\ issued' = issued
            /\ (pc[p] = "fg_fn" /\ pc'[p] # pc[p]
                  /\ sshClientConfig[user[p]] # NoCfg) =>
                  /\ pc'[p] = "fg_done" /\ err'[p] = NoErr
                  /\ issued' = issued /\ sshClientConfig' = sshClientConfig
            /\ (pc[p] = "usc_after" /\ pc'[p] \in {"returned", "dial_handshake", "retry_tcp"}) =>
                  /\ cfg'[p] = sshClientConfig[user[p]] /\ cfg'[p] # NoCfg
                  /\ issued' = issued]_vars

\* C21 witness: a call holds the single-flight slot of its username and is
\* about to run fn while the cache holds an entry that another call stored
\* and has returned to its dialTargetSSH.
C21_Witness ==
    \E p, q \in Conns :
        /\ p # q /\ user[p] = user[q]
        /\ pc[p] = "fg_fn" /\ fg[user[p]] = p
        /\ sshClientConfig[user[p]] # NoCfg
        /\ pc[q] = "dial_handshake" /\ cfg[q] = sshClientConfig[user[p]]

\* C22: a Sign call with hash function 0 or SHA-256 has sent, once it is past
\* sendRequest, exactly one request, with the digest it was given, hash NONE
\* for 0 and SHA256 for SHA-256, and a PSS salt length exactly when the
\* options are *rsa.PSSOptions, and it returns the signature sendRequest
\* answered; with any other hash function it has sent nothing and returns an
\* error and no signature.
C22_OneFaithfulRequest ==
    LET h == sign.opts.Hash
    IN  /\ sign.rpc = "sent" => Len(sign.sent) = 1 /\ h \in {NoHash, SHA256}
        /\ sign.rpc = "done" =>
             IF h \in {NoHash, SHA256}
               THEN /\ Len(sign.sent) = 1
                    /\ sign.sent[1].Digest = sign.digest
                    /\ sign.sent[1].Hash =
                          (IF h = NoHash THEN "HASH_NONE" ELSE "HASH_SHA256")
                    /\ sign.sent[1].PssSaltLength.set <=> (sign.opts.kind = "pss")
                    /\ sign.reply.err = NilErr =>
                          sign.result = [sig |-> sign.reply.sig, err |-> NilErr]
                    /\ sign.reply.err # NilErr =>
                          sign.result.sig = NoSig /\ sign.result.err # NilErr
               ELSE /\ sign.sent = <<>>
                    /\ sign.result.sig = NoSig /\ sign.result.err # NilErr

\* C22 witness: a Sign call with PSS options over SHA-256 has returned the
\* signature it was answered.
C22_Witness ==
    /\ sign.rpc = "done" /\ sign.opts.kind = "pss" /\ sign.opts.Hash = SHA256
    /\ sign.digest = <<1, 2>> /\ sign.result.sig = <<7, 8>>
    /\ sign.sent[1].PssSaltLength = [set |-> TRUE, v |-> 32]

\* C23 as stated: once the inbound handshake succeeded and while neither side
\* has closed, every message received from one side can be forwarded to the
\* other; what was forwarded is what was received, each message once and in
\* the order sent within its channel; and nothing is forwarded after the
\* bridge ended.
C23_BridgeRelaysInOrder ==
    LET OfChan(s, c) == SelectSeq(s, LAMBDA m : m.ch = c)
        IsPrefix(s, t) == Len(s) <= Len(t) /\ \A i \in 1..Len(s) : s[i] = t[i]
    IN
    \A p \in Conns, side \in Sides :
        /\ \A c \in Chans :
             IsPrefix(OfChan(bridge[p].fwd[side], c), OfChan(bridge[p].recv[side], c))
        /\ (pc[p] = "proxy" /\ Pending(p, side) # {}) => ENABLED BridgeForward(p, side)
        /\ pc[p] # "proxy" => ~ENABLED BridgeForward(p, side)

\* C24: once the profiles are listed, the local provider's answer is that of
\* the first profile in list order that yields a matching cluster client,
\* whatever fails for the profiles before it: the SSH info of that profile,
\* or the error of its cluster config or dial options; and the answer is
\* errNoTCPHandler if and only if no profile yields one.
C24_FirstYieldingProfile ==
    LET Yields(prof, fqdn) ==
            /\ prof.mode # "rootErr"
            /\ \/ HasSuffix(fqdn, Dot \o prof.root \o Dot)
               \/ /\ prof.mode \notin {"leavesErr", "leafErr"}
                  /\ \E k \in 1..Len(prof.leaves) :
                       HasSuffix(fqdn, Dot \o prof.leaves[k] \o Dot \o prof.root \o Dot)
        Yielding(profiles, fqdn) == {i \in 1..Len(profiles) : Yields(profiles[i], fqdn)}
    IN
    (/\ resolve.rpc \in {"provided", "done"} /\ resolve.provider = "local"
     /\ resolve.fault # "ListProfiles")
    => LET ys == Yielding(resolve.profiles, resolve.fqdn)
           i == CHOOSE j \in ys : \A k \in ys : j <= k
           r == resolve.provided
       IN  /\ (r.err = errNoTCPHandler) <=> (ys = {})
           /\ ys # {} =>
                IF resolve.fault = "none"
                  THEN /\ r.err = NilErr
                       /\ r.info.Profile = i
                  ELSE /\ r.info = NoInfo
                       /\ r.err = TraceWrap(ErrFrom(resolve.fault))

\* C24 witness: the first profile cannot give its root client, the second
\* yields the matching client, and the answer is the second profile's.
C24_Witness ==
    /\ resolve.rpc = "provided" /\ resolve.provider = "local"
    /\ resolve.fault = "none"
    /\ Len(resolve.profiles) = 2
    /\ resolve.profiles[1].mode = "rootErr"
    /\ HasSuffix(resolve.fqdn, Dot \o resolve.profiles[1].root \o Dot)
    /\ resolve.profiles[2].mode # "rootErr"
    /\ HasSuffix(resolve.fqdn, Dot \o resolve.profiles[2].root \o Dot)
    /\ resolve.provided.info.Profile = 2

\* C25: stripSSHSuffix of host.<leaf>.<root>. with the leaf and root cluster
\* names is host, of host.<root>. with an empty leaf cluster name is host,
\* and its result for any fqdn of these forms, whatever names are passed,
\* does not end with a dot.
C25_BareHostName ==
    strip.pc = "done" =>
        /\ \A h \in Hosts :
             /\ (/\ strip.leafClusterName # Empty
                 /\ strip.s = h \o Dot \o strip.leafClusterName \o Dot
                                \o strip.rootClusterName \o Dot)
                  => strip.target = h
             /\ (/\ strip.leafClusterName = Empty
                 /\ strip.s = h \o Dot \o strip.rootClusterName \o Dot)
                  => strip.target = h
        /\ ~HasSuffix(strip.target, Dot)

\* C25 witness: a host name of two labels under leaf cluster lr of root r was
\* stripped to the host name.
C25_Witness ==
    /\ strip.pc = "done"
    /\ strip.leafClusterName = <<"l", "r">> /\ strip.rootClusterName = <<"r">>
    /\ strip.s = <<"h", ".", "l", ".", "l", "r", ".", "r", ".">>
    /\ strip.target = <<"h", ".", "l">>

\* C26 as stated: on no target TCP conn of a run was an outbound SSH client
\* handshake attempted more than once.
C26_OneHandshakePerConn ==
    \A p \in Conns : \A i \in 1..Len(tcpConns[p]) : tcpConns[p][i].hs <= 1

\* C27: Run closes the transport at most once and calls OnClose at most
\* once, and only after the close; when Run has returned, after the end of
\* processing or after a cancellation, the transport was closed exactly once
\* and OnClose, when set, was called exactly once, after that close.
C27_ClosedOnceThenOnClose ==
    /\ reader.run # "idle" =>
         /\ reader.closes <= 1 /\ reader.onClose <= 1
         /\ reader.onClose > 0 => reader.closes = 1
    /\ reader.run = "returned" =>
         /\ reader.closes = 1
         /\ reader.closedFirst
         /\ reader.onClose = (IF reader.cfg.OnClose THEN 1 ELSE 0)

\* C27 witness: Run has returned on a cancellation, with OnClose called,
\* while startProcess is still working on a message it read.
C27_Witness ==
    /\ reader.run = "returned" /\ reader.ctx /\ ~reader.finished
    /\ reader.cfg.OnClose /\ reader.onClose = 1
    /\ reader.proc = "unmarshal"

\* C28: a handler invocation that returned an error is the last invocation
\* of the reader, no message is read after the one it was invoked for, and
\* startProcess has ended with it.
C28_HandlerErrorStops ==
    \A i \in 1..Len(reader.calls) :
        ~reader.calls[i].ok =>
            /\ i = Len(reader.calls)
            /\ reader.reads = reader.calls[i].n
            /\ reader.proc = "ended"

\* C28 witness: the handler of the first message returned nil and that of
\* the second an error, and the goroutine of startProcess has ended.
C28_Witness ==
    /\ Len(reader.calls) = 2 /\ reader.reads = 2
    /\ reader.calls[1].ok /\ reader.calls[1].n = 1
    /\ ~reader.calls[2].ok /\ reader.calls[2].n = 2
    /\ reader.calls[2].h = "OnNotification"
    /\ reader.proc = "ended" /\ ~reader.ctx

\* C29 as stated: for each message read at most one handler was invoked.
C29_OneHandlerPerMessage ==
    LET CallsFor(n) == {i \in 1..Len(reader.calls) : reader.calls[i].n = n}
    IN
    \A n \in 1..reader.reads : Cardinality(CallsFor(n)) <= 1

\* C30 as stated: no handler was invoked after Run had closed the transport,
\* called OnClose and returned.
C30_NoHandlerAfterClose ==
    \A i \in 1..Len(reader.calls) : ~reader.calls[i].late

\* C37 as stated: a call whose data is the name mapped to a defined value v,
\* or the JSON number equal to v, succeeds and leaves v in *dst.
C37_DefinedValueAccepted ==
    enum.pc = "done" =>
      \A v \in DOMAIN valToName :
         (\/ enum.data = [t |-> "string", s |-> valToName[v]]
          \/ enum.data = [t |-> "number", int |-> v, frac |-> 0])
           => enum.err = "" /\ enum.dst = v

\* C38 as stated: a call whose data is a string that is no mapped name, a number
\* that is no defined value, or neither a string nor a number, returns an error
\* and leaves *dst as it was.
C38_OtherDataRejected ==
    enum.pc = "done" =>
      ((\/ enum.data.t = "string" /\ \A v \in DOMAIN valToName : enum.data.s # valToName[v]
        \/ enum.data.t = "number"
             /\ ~(enum.data.frac = 0 /\ enum.data.int \in DOMAIN valToName)
        \/ enum.data.t \notin {"string", "number"})
         => enum.err # "" /\ enum.dst = enum.dst0)

\* C36: once the shutdown waits for the delay or stops a server, the advertised
\* RelayServer and the tunnel server are marked terminating; the heartbeat and
\* the auth connector are closed only when the tunnel server is closed and the
\* API server stopped; after an exit that is not graceful the wait for a
\* shutdown delay ends at once, on the context, never on the delay.
C36_ShutdownOrder ==
    /\ (\/ relay.pc = "select" \/ relay.waited # "none"
        \/ relay.egTunnel # "none" \/ relay.egAPI # "none"
        \/ relay.tunnel = "closed" \/ relay.api = "stopped")
         => relay.terminating /\ relay.tunnelTerminating
    /\ (relay.hbCloses > 0 \/ relay.connCloses > 0)
         => relay.tunnel = "closed" /\ relay.api = "stopped"
    /\ relay.exit \in {"ungraceful", "waitError"}
         => /\ relay.pc # "select"
            /\ relay.waited = IF relay.delay > 0 /\ relay.pc \notin {"mark", "setTerminating", "delay"}
                                THEN "atOnce" ELSE "none"

C36_Witness ==
    /\ relay.exit = "ungraceful" /\ relay.delay > 0 /\ relay.waited = "atOnce"
    /\ relay.pc = "returned" /\ relay.hbCloses = 2 /\ relay.connCloses = 1
    /\ relay.tunnel = "closed" /\ relay.api = "stopped"

\* C35: every client request read is answered by one OnRequest call, which
\* writes a JSON-RPC error with the text of the authentication error and the ID
\* of that request; once the reader has finished, the call returns the
\* authentication error it was given.
C35_AuthErrAnswered ==
    /\ autherr.pc # "idle" /\ reader.run # "idle" =>
         /\ \A i \in 1..Len(reader.calls) :
              reader.calls[i].h = "OnRequest" =>
                AuthErrWritten(i) = [code |-> "INTERNAL_ERROR",
                                     message |-> autherr.authErr.id,
                                     id |-> reader.calls[i].n]
         /\ (reader.msg = "request" /\ reader.proc \in {"loop", "read", "ended"}) =>
              Cardinality({i \in 1..Len(reader.calls) :
                              reader.calls[i].n = reader.reads
                                /\ reader.calls[i].h = "OnRequest"}) = 1
    /\ autherr.pc = "returned" /\ reader.run = "returned" =>
         autherr.ret.id = autherr.authErr.id

C35_Witness ==
    /\ autherr.pc = "returned" /\ reader.run = "returned"
    /\ Len(reader.calls) = 2
    /\ reader.calls[1].h = "OnRequest" /\ reader.calls[2].h = "OnRequest"
    /\ AuthErrWritten(2).id = 2
    /\ autherr.ret = TraceWrap(autherr.authErr)

\* C31: the body of the cancel function runs at most once whatever the number
\* of cmd.Cancel calls; the first signal it sends is SIGINT; SIGKILL is sent
\* only after a SIGINT that could not be delivered or with processDone still
\* empty when the 10 second wait ended.
C31_GracefulStopOrder ==
    stdio.pc # "idle" =>
      /\ stdio.bodyRuns <= 1
      /\ Len(stdio.signals) <= 2
      /\ stdio.signals # <<>> => stdio.signals[1].sig = "SIGINT"
      /\ \A i \in 1..Len(stdio.signals) :
           stdio.signals[i].sig = "SIGKILL" =>
             /\ i = 2 /\ stdio.signals[1].sig = "SIGINT"
             /\ ~stdio.signals[1].ok \/ stdio.signals[i].processDone = 0

C31_Witness ==
    /\ stdio.pc # "idle" /\ stdio.cancelCalls = 2 /\ stdio.bodyRuns = 1
    /\ stdio.once = "done" /\ Len(stdio.signals) = 2
    /\ stdio.signals[1].ok /\ stdio.signals[2].sig = "SIGKILL"

\* C32 as stated: when the body of the cancel function runs, cmd.Start has
\* started the process.
C32_CancelAfterStart ==
    stdio.pc # "idle" /\ stdio.bodyRuns > 0 => stdio.procAtCancel # "none"

\* C33: every client request read has one written message, to the client or
\* to the server; every client notification one, to the server; every server
\* response and server notification one, to the client; what the reader of a
\* side wrote is in the order it was read.
C33_MessagesRouted ==
    stdio.pc # "idle" =>
      \A side \in {"client", "server"} :
        LET r == stdio.rd[side]
            Writes(n) == {i \in 1..Len(r.out) : r.out[i].n = n}
        IN  /\ \A n \in 1..Len(r.in) :
                 (side = "client" \/ r.in[n] # "request") =>
                    /\ Cardinality(Writes(n)) = 1
                    /\ \A i \in Writes(n) :
                         /\ r.out[i].kind = r.in[n]
                         /\ r.out[i].to =
                              IF side = "server" THEN "client"
                              ELSE IF r.in[n] = "notification" THEN "server"
                              ELSE r.out[i].to
                         /\ r.out[i].to \in {"client", "server"}
            /\ \A i, j \in 1..Len(r.out) : i < j => r.out[i].n < r.out[j].n

C33_Witness ==
    /\ stdio.pc # "idle"
    /\ stdio.rd["client"].in = <<"request", "notification">>
    /\ Len(stdio.rd["client"].out) = 2
    /\ stdio.rd["client"].out[1].to = "client"
    /\ stdio.rd["client"].out[2].to = "server"

\* C34: a call emits at most one start event; when it has returned it has
\* emitted as many end events as start events, none when it returned before
\* the start event; no end event precedes the start event.
C34_EndEventPerStart ==
    \A s \in {stdio, sse} :
       s.pc # "idle" =>
          /\ s.starts <= 1 /\ s.ends <= s.starts
          /\ s.pc = "returned" => s.ends = s.starts

C34_Witness ==
    /\ stdio.pc = "returned" /\ stdio.starts = 1 /\ stdio.ends = 1
    /\ stdio.proc = "none" /\ ~stdio.panic

====
